---- MODULE Spec2Model ----
(***************************************************************************)
(* A model of the dataset-miner mining pipeline:                           *)
(*   - rate_limiter.py   RateLimit / RateLimiter (dual sliding window)     *)
(*   - cost_analyzer.py  CostAnalyzer (usage ledger)                       *)
(*   - file_processor.py start_mining / process_file / save_mined_data     *)
(*   - cli.py            main (interrupt and error handling, summary)      *)
(* Time is measured in whole seconds.  Costs are measured in units of      *)
(* 10^-9 dollars, so that tokens / 1_000_000 * price is an integer.        *)
(***************************************************************************)
EXTENDS Integers, Sequences, FiniteSets, TLC

VARIABLES
    \* ---- rate limiter (rate_limiter.py) ----
    now,            \* the value time.time() returns
    request_limit,  \* RateLimiter.request_limit.entries: deque of [t, c]
    token_limit,    \* RateLimiter.token_limit.entries: deque of [t, c]
    reqHist,        \* history: every entry ever appended to request_limit
    tokHist,        \* history: every entry ever appended to token_limit
    waitLog,        \* history: one record per RateLimiter.wait call
    \* ---- usage ledger (cost_analyzer.py) ----
    total_input_tokens,
    total_output_tokens,
    total_input_cost,
    total_output_cost,
    total_verification_tokens,
    total_verification_cost,
    usageLog,       \* history: one record per add_usage/add_verification_usage
    summary,        \* what the last get_summary() call returned, if any
    \* ---- mining run (cli.py, file_processor.py) ----
    pc,                  \* position of the run, see Positions
    verify,              \* args.verify
    docIdx,              \* start_mining: index of the file being processed
    chunkIdx,            \* process_file: index of the next chunk
    file_mined_data,     \* process_file: its list mined_data
    mined_data,          \* start_mining: its list mined_data
    unique_output_file,  \* start_mining: the output path of the run
    pending,             \* save_mined_data: the array being written
    disk,                \* the output file: [state, data]
    initial_file,        \* history: the output file before the first save
    saves,               \* history: the lists passed to the completed saves
    main_mined_data,     \* cli.main: its list mined_data
    output_file_path,    \* cli.main: output_file_path
    cost_analyzer_bound, \* cli.main: whether cost_analyzer has been assigned
    caught,              \* cli.main: which except clause ran
    printed,             \* what print_summary printed, if it ran
    produced,            \* history: one record per chunk that was processed
    persisted,           \* history: the array the last completed save wrote
    abortedIn,           \* history: where the exception ending the run rose
    written,             \* history: the paths opened for writing
    \* ---- the steps of one model call (llm_utils.py, verification.py) ----
    call_pc,             \* the next step of the call, "idle" between calls
    call_kind,           \* "generation" or "verification"
    has_rate_limiter,    \* whether rate_limiter is a RateLimiter (not None)
    call_tokens,         \* the locals input_tokens and output_tokens
    events,              \* history: the steps of the call, with their times
    started,             \* history: the number of calls begun
    \* ---- two workers on one RateLimiter and one CostAnalyzer ----
    workers,             \* per worker: position, locals of the running call
    use_mutex,           \* whether the callers wrap each call in a mutex
    lock,                \* the worker holding the mutex, 0 if none
    \* ---- single calls (llm_utils.py, verification.py) ----
    llm_response,        \* generate_questions_answers: the text the model returned
    extract_out,         \* what became of llm_response, once it is handled
    input_qa_pairs,      \* verify_dataset: its argument qa_pairs
    verified_dataset,    \* verify_dataset: its list verified_dataset
    verifyLog,           \* history: one record per verify_qa_pair call
    verify_pc            \* position of the verify_dataset call

rlVars == <<now, request_limit, token_limit, reqHist, tokHist, waitLog>>

ledgerVars == <<total_input_tokens, total_output_tokens, total_input_cost,
                total_output_cost, total_verification_tokens,
                total_verification_cost, usageLog, summary>>

runVars == <<pc, verify, docIdx, chunkIdx, file_mined_data, mined_data,
             unique_output_file, pending, disk, initial_file, saves,
             main_mined_data, output_file_path, cost_analyzer_bound, caught,
             printed, produced, persisted, abortedIn, written>>

callVars == <<llm_response, extract_out, input_qa_pairs, verified_dataset,
              verifyLog, verify_pc>>

stepVars == <<call_pc, call_kind, has_rate_limiter, call_tokens, events,
              started>>

workerVars == <<workers, use_mutex, lock>>

vars == <<rlVars, ledgerVars, runVars, callVars, stepVars, workerVars>>

-----------------------------------------------------------------------------
(* Bounds of the model.                                                    *)

\* the limits the RateLimiter is constructed with (any positive integers)
requests_per_minute == 3
tokens_per_minute == 4
\* no call starts and no idle time passes after this instant
MaxTime == 61
\* number of RateLimiter.wait calls in a behaviour
MaxCalls == 5
\* time.sleep(s) returns after s..s+MaxOversleep seconds
MaxOversleep == 1

\* number of save_mined_data calls on one path
MaxSaves == 2
\* number of add_usage / add_verification_usage calls in a behaviour
MaxUsageCalls == 3
\* chunks the splitter makes of a file with text
NumChunks == 3
\* records the model returns in one run, and model calls that fail
MaxRecords == 2
MaxFailures == 1
\* tokens of a model response
MaxLen == 6
\* depth of nested arrays that json.loads decodes before the interpreter's
\* recursion limit is reached (about 1000 in CPython)
RecursionLimit == 2
\* records in the list passed to verify_dataset
MaxPairs == 2
\* model calls made one after the other
MaxModelCalls == 2

(* Program constants.                                                      *)
window == 60
\* prices per 1M tokens, in thousandths of a dollar (0.150 and 0.600 dollars)
input_price_per_1m_tokens == 150
output_price_per_1m_tokens == 600

\* get_file_list(args.source): the files of the source directory
Files == <<"a.txt", "b.md">>
NumDocs == Len(Files)

\* token counts of one call
TokenAmounts == {0, 1, 3}

\* idle periods between two calls (also the duration of a model call)
TickSteps == {window \div 2, window - 1, window}
\* token counts of a prompt: small, just below the limit
PromptTokens == {1, tokens_per_minute - 1}
\* token counts of a response
ResponseTokens == {0, 1}

\* token costs of a call: zero, small, just below the limit, above the limit
TokenCosts == {0, 1, tokens_per_minute - 1, tokens_per_minute + 1}

-----------------------------------------------------------------------------
(* RateLimit (rate_limiter.py)                                             *)

\* a purge that keeps the entry that is exactly one window old
RECURSIVE PurgeInclusive(_, _)
PurgeInclusive(entries, current_time) ==
    IF entries # <<>> /\ current_time - entries[1].t > window
    THEN PurgeInclusive(Tail(entries), current_time)
    ELSE entries

\* the purge loops: popleft while current_time - entries[0][0] >= window
RECURSIVE Purge(_, _)
Purge(entries, current_time) ==
    IF entries # <<>> /\ current_time - entries[1].t >= window
    THEN Purge(Tail(entries), current_time)
    ELSE entries

\* sum(c for _, c in self.entries)
RECURSIVE TotalCount(_)
TotalCount(entries) ==
    IF entries = <<>> THEN 0 ELSE entries[1].c + TotalCount(Tail(entries))

\* the comparison with the sum alone: admits one entry too many
OverLimitOffByOne(total_count, count, limit) == total_count > limit

\* the limit comparison of RateLimit.wait
OverLimit(total_count, count, limit) == total_count + count > limit

\* the age of the oldest entry added to the window instead of subtracted
SleepTimeSignFlipped(oldest_time, current_time) ==
    window + (current_time - oldest_time)

\* sleep_time = self.window - (current_time - oldest_time)
SleepTime(oldest_time, current_time) == window - (current_time - oldest_time)

\* RateLimit.wait(count) on a deque `entries` with limit `limit`, entered at
\* time t; time.sleep oversleeps by `over`.  The result holds the deque after
\* the call, the time at which the call returns, the time slept (`asked` of time.sleep), and whether
\* the call raised (self.entries[0] on an empty deque is an IndexError).
RateLimitWait(entries, limit, t, count, over) ==
    LET purged == Purge(entries, t)
        total_count == TotalCount(purged)
    IN  IF OverLimit(total_count, count, limit)
        THEN IF purged = <<>>
             THEN [entries |-> purged, now |-> t, slept |-> 0, asked |-> 0,
                   raised |-> TRUE]
             ELSE LET sleep_time == SleepTime(purged[1].t, t)
                  IN  IF sleep_time > 0
                      THEN LET t2 == t + sleep_time + over
                           IN  [entries |-> Append(Purge(purged, t2),
                                                   [t |-> t2, c |-> count]),
                                now |-> t2, slept |-> sleep_time + over,
                                asked |-> sleep_time, raised |-> FALSE]
                      ELSE [entries |-> Append(purged, [t |-> t, c |-> count]),
                            now |-> t, slept |-> 0, asked |-> 0,
                            raised |-> FALSE]
        ELSE [entries |-> Append(purged, [t |-> t, c |-> count]),
              now |-> t, slept |-> 0, asked |-> 0, raised |-> FALSE]

\* what a RateLimit.wait call appended to the history of its deque
Recorded(hist, r) ==
    IF r.raised THEN hist ELSE Append(hist, r.entries[Len(r.entries)])

\* def wait(self, count: int = 1)
DefaultCount == 1

\* a request that is recorded without being checked against the limit
RequestLimitUnchecked(entries, t, over) ==
    [entries |-> Append(Purge(entries, t), [t |-> t, c |-> DefaultCount]),
     now |-> t, slept |-> 0, asked |-> 0, raised |-> FALSE]

\* self.request_limit.wait(): the count is the default
RequestLimitWait(entries, t, over) ==
    RateLimitWait(entries, requests_per_minute, t, DefaultCount, over)

InitRL ==
    /\ now = 0
    /\ request_limit = <<>>
    /\ token_limit = <<>>
    /\ reqHist = <<>>
    /\ tokHist = <<>>
    /\ waitLog = <<>>

\* RateLimiter.wait(tokens): request_limit.wait() then token_limit.wait(tokens);
\* an exception of the first call skips the second.
Wait(tokens, over1, over2) ==
    /\ now <= MaxTime
    /\ Len(waitLog) < MaxCalls
    /\ LET r1 == RequestLimitWait(request_limit, now, over1)
       IN  IF r1.raised
           THEN /\ request_limit' = r1.entries
                /\ UNCHANGED <<token_limit, reqHist, tokHist>>
                /\ now' = r1.now
                /\ waitLog' = Append(waitLog,
                       [tokens |-> tokens, start |-> now, end |-> r1.now,
                        reqSlept |-> r1.slept, tokSlept |-> 0,
                        reqAsked |-> r1.asked, tokAsked |-> 0, raised |-> TRUE,
                        reqRecorded |-> 0, tokRecorded |-> 0])
           ELSE LET r2 == RateLimitWait(token_limit, tokens_per_minute,
                                        r1.now, tokens, over2)
                IN  /\ request_limit' = r1.entries
                    /\ reqHist' = Recorded(reqHist, r1)
                    /\ token_limit' = r2.entries
                    /\ tokHist' = Recorded(tokHist, r2)
                    /\ now' = r2.now
                    /\ waitLog' = Append(waitLog,
                           [tokens |-> tokens, start |-> now, end |-> r2.now,
                            reqSlept |-> r1.slept, tokSlept |-> r2.slept,
                            reqAsked |-> r1.asked, tokAsked |-> r2.asked,
                            raised |-> r2.raised,
                            reqRecorded |-> 1,
                            tokRecorded |-> IF r2.raised THEN 0 ELSE 1])

\* time passes between two calls
Tick(d) ==
    /\ now + d <= MaxTime
    /\ now' = now + d
    /\ UNCHANGED <<request_limit, token_limit, reqHist, tokHist, waitLog>>

-----------------------------------------------------------------------------
(* CostAnalyzer (cost_analyzer.py)                                         *)

\* calculate_cost: (tokens / 1_000_000) * price, in units of 10^-9 dollars.
\* The code computes in floating point; the model computes exactly.
CalculateCost(input_tokens, output_tokens) ==
    [input_cost |-> input_tokens * input_price_per_1m_tokens,
     output_cost |-> output_tokens * output_price_per_1m_tokens]

\* counts the prompt tokens only
VerificationTokensInputOnly(input_tokens, output_tokens) == input_tokens

\* the amount add_verification_usage adds to total_verification_tokens
VerificationTokens(input_tokens, output_tokens) == input_tokens + output_tokens

\* CostAnalyzer.__init__
InitLedger ==
    /\ total_input_tokens = 0
    /\ total_output_tokens = 0
    /\ total_input_cost = 0
    /\ total_output_cost = 0
    /\ total_verification_tokens = 0
    /\ total_verification_cost = 0
    /\ usageLog = <<>>
    /\ summary = <<>>

\* CostAnalyzer.add_usage; returns (input_cost, output_cost)
AddUsage(input_tokens, output_tokens) ==
    LET cost == CalculateCost(input_tokens, output_tokens)
    IN  /\ Len(usageLog) < MaxUsageCalls
        /\ total_input_tokens' = total_input_tokens + input_tokens
        /\ total_output_tokens' = total_output_tokens + output_tokens
        /\ total_input_cost' = total_input_cost + cost.input_cost
        /\ total_output_cost' = total_output_cost + cost.output_cost
        /\ usageLog' = Append(usageLog,
               [kind |-> "generation", input_tokens |-> input_tokens,
                output_tokens |-> output_tokens,
                returned |-> <<cost.input_cost, cost.output_cost>>])
        /\ UNCHANGED <<total_verification_tokens, total_verification_cost,
                       summary>>

\* CostAnalyzer.add_verification_usage; returns input_cost + output_cost
AddVerificationUsage(input_tokens, output_tokens) ==
    LET cost == CalculateCost(input_tokens, output_tokens)
    IN  /\ Len(usageLog) < MaxUsageCalls
        /\ total_verification_tokens' =
               total_verification_tokens
               + VerificationTokens(input_tokens, output_tokens)
        /\ total_verification_cost' =
               total_verification_cost + (cost.input_cost + cost.output_cost)
        /\ usageLog' = Append(usageLog,
               [kind |-> "verification", input_tokens |-> input_tokens,
                output_tokens |-> output_tokens,
                returned |-> <<cost.input_cost + cost.output_cost>>])
        /\ UNCHANGED <<total_input_tokens, total_output_tokens,
                       total_input_cost, total_output_cost, summary>>

\* the grand total leaves the verification cost out
SummaryWithoutVerification ==
    [total_input_tokens |-> total_input_tokens,
     total_output_tokens |-> total_output_tokens,
     total_tokens |-> total_input_tokens + total_output_tokens,
     total_input_cost |-> total_input_cost,
     total_output_cost |-> total_output_cost,
     total_cost |-> total_input_cost + total_output_cost,
     total_verification_tokens |-> total_verification_tokens,
     total_verification_cost |-> total_verification_cost,
     grand_total_cost |-> total_input_cost + total_output_cost]

\* the dictionary CostAnalyzer.get_summary builds
Summary ==
    [total_input_tokens |-> total_input_tokens,
     total_output_tokens |-> total_output_tokens,
     total_tokens |-> total_input_tokens + total_output_tokens,
     total_input_cost |-> total_input_cost,
     total_output_cost |-> total_output_cost,
     total_cost |-> total_input_cost + total_output_cost,
     total_verification_tokens |-> total_verification_tokens,
     total_verification_cost |-> total_verification_cost,
     grand_total_cost |-> total_input_cost + total_output_cost
                          + total_verification_cost]

\* CostAnalyzer.get_summary, called after Len(usageLog) record calls
GetSummary ==
    /\ summary' = <<[after |-> Len(usageLog), result |-> Summary]>>
    /\ UNCHANGED <<total_input_tokens, total_output_tokens, total_input_cost,
                   total_output_cost, total_verification_tokens,
                   total_verification_cost, usageLog>>

-----------------------------------------------------------------------------
(* Records.  A text is a tuple, the empty string the empty tuple.  A Python *)
(* dict is a record whose fields are its keys; any other Python value that  *)
(* a JSON array can hold (a string, a number) is NonDict.                   *)

EmptyString == <<>>
NonDict == [nondict |-> "str"]
IsDict(x) == "nondict" \notin DOMAIN x

\* dict.get(key, default)
Get(d, key, default) == IF key \in DOMAIN d THEN d[key] ELSE default

\* the new key alone: the keys of d are lost
WithOnly(d, key, value) == [k \in {key} |-> value]

\* {**d, key: value}
With(d, key, value) ==
    [k \in DOMAIN d \cup {key} |-> IF k = key THEN value ELSE d[k]]

\* the j-th object of the model's answer for chunk k of file d
QA(d, k, j) == [instruction |-> <<"Q", d, k, j>>, output |-> <<"A", d, k, j>>]
QAWithInput(d, k, j) ==
    [instruction |-> <<"Q", d, k, j>>, input |-> <<"I", d, k, j>>,
     output |-> <<"A", d, k, j>>]
QAWithoutOutput(d, k, j) == [instruction |-> <<"Q", d, k, j>>]

\* what extract_json_from_response can return for the answer to chunk k of
\* file d: nothing, one or two well-formed objects, an object lacking a key,
\* an array element that is no object
Extracted(d, k) ==
    { <<>>, <<QA(d, k, 1)>>, <<QA(d, k, 1), QAWithInput(d, k, 2)>>,
      <<QAWithoutOutput(d, k, 1)>>, <<NonDict>> }

\* the results verify_qa_pair can return: ERROR when the model invocation
\* raised, the other three by the classification of the response
VerificationResults ==
    { [status |-> st, explanation |-> <<"E">>] :
         st \in {"CORRECT", "INCORRECT", "UNKNOWN", "ERROR"} }

\* the states of the output file: no file, a file of size 0, a JSON array
Absent == [state |-> "absent", data |-> <<>>]
EmptyFile == [state |-> "empty", data |-> <<>>]
JsonFile(data) == [state |-> "json", data |-> data]

\* the index of the last occurrence of a character in a text, 0 if none
LastIndexOf(text, ch) ==
    LET found == { i \in 1 .. Len(text) : text[i] = ch }
    IN  IF found = {} THEN 0
        ELSE CHOOSE i \in found : \A j \in found : j <= i

\* head.rstrip("/")
RECURSIVE RStripSlashes(_)
RStripSlashes(text) ==
    IF text # <<>> /\ text[Len(text)] = "/"
    THEN RStripSlashes(SubSeq(text, 1, Len(text) - 1))
    ELSE text

\* os.path.split (posixpath): the path is cut after its last slash, and the
\* trailing slashes of the head are dropped unless it consists of slashes
PathSplit(path) ==
    LET i == LastIndexOf(path, "/")
        head == SubSeq(path, 1, i)
    IN  [head |-> IF \E k \in 1 .. Len(head) : head[k] # "/"
                  THEN RStripSlashes(head) ELSE head,
         tail |-> SubSeq(path, i + 1, Len(path))]

\* os.path.splitext: the extension begins at the last dot of the last
\* component, unless only dots come before it in that component
SplitExt(path) ==
    LET sep == LastIndexOf(path, "/")
        dot == LastIndexOf(path, ".")
    IN  IF dot > sep /\ \E k \in sep + 1 .. dot - 1 : path[k] # "."
        THEN [root |-> SubSeq(path, 1, dot - 1),
              ext |-> SubSeq(path, dot, Len(path))]
        ELSE [root |-> path, ext |-> <<>>]

\* os.path.join(a, b) (posixpath)
PathJoin(a, b) ==
    IF b # <<>> /\ b[1] = "/" THEN b
    ELSE IF a = <<>> \/ a[Len(a)] = "/" THEN a \o b
    ELSE a \o <<"/">> \o b

\* a file name that is the configured one, with no timestamp
FilenameWithoutTimestamp(base_filename, timestamp) == base_filename

\* generate_unique_filename, the timestamp being what
\* datetime.datetime.now().strftime("%Y%m%d_%H%M%S_%f") returned
GenerateUniqueFilename(base_filename, timestamp) ==
    LET parts == PathSplit(base_filename)
        file == SplitExt(parts.tail)
    IN  PathJoin(parts.head, file.root \o <<"_">> \o timestamp \o file.ext)

\* the values of args.output: the default "mined_dataset.json" (written
\* m.j), a name without extension, a name in a directory whose name has a
\* dot, and a name that ends like a timestamp
DefaultOutput == <<"m", ".", "j">>
Outputs ==
    { DefaultOutput,
      <<"m">>,
      <<"d", ".", "x", "/", "m">>,
      <<"m", "_", "0", "1", ".", "j">> }

\* the readings of the clock, formatted: strftime gives every reading the
\* same number of characters, digits and underscores only
Timestamps == { <<"0", "1">>, <<"1", "0">>, <<"1", "1">> }

\* the reading of the clock at the start of the run that Spec follows
StartTime == <<"0", "1">>

\* the output path of that run
UniqueName == GenerateUniqueFilename(DefaultOutput, StartTime)

\* process_file(..., output_file=unique_output_file, ...): the path that
\* start_mining hands to process_file and process_file to save_mined_data
OutputFile(unique) == unique

Positions == {"main", "files", "chunks", "saving", "summary", "exit", "raised"}

-----------------------------------------------------------------------------
(* llm_utils.py, verification.py                                           *)

\* the exception of the model invocation leaves generate_questions_answers
GenerateRaises(failed, extracted) ==
    [raised |-> failed, qa_pairs |-> IF failed THEN <<>> ELSE extracted]

\* generate_questions_answers (and process_text, which passes it on): a model
\* invocation that raises is logged and gives []; otherwise the records
\* extracted from the response, [] when there are none
GenerateQuestionsAnswers(failed, extracted) ==
    [raised |-> FALSE, qa_pairs |-> IF failed THEN <<>> ELSE extracted]

\* verify_qa_pair reads qa_pair["instruction"] and qa_pair["output"] outside
\* its try block: a KeyError or TypeError leaves it
VerifyRaises(qa_pair) ==
    \/ ~IsDict(qa_pair)
    \/ "instruction" \notin DOMAIN qa_pair
    \/ "output" \notin DOMAIN qa_pair

\* a verify_dataset that keeps the records found CORRECT and drops the others
VerifyDatasetFiltering(qa_pairs, results) ==
    IF \E i \in 1 .. Len(qa_pairs) : VerifyRaises(qa_pairs[i])
    THEN [raised |-> TRUE, verified |-> <<>>]
    ELSE LET all == [i \in 1 .. Len(qa_pairs) |->
                        With(qa_pairs[i], "verification", results[i])]
         IN  [raised |-> FALSE,
              verified |-> SelectSeq(all,
                              LAMBDA r : r.verification.status = "CORRECT")]

\* verify_dataset: results[i] is what verify_qa_pair returns for qa_pairs[i]
VerifyDataset(qa_pairs, results) ==
    IF \E i \in 1 .. Len(qa_pairs) : VerifyRaises(qa_pairs[i])
    THEN [raised |-> TRUE, verified |-> <<>>]
    ELSE [raised |-> FALSE,
          verified |-> [i \in 1 .. Len(qa_pairs) |->
                           With(qa_pairs[i], "verification", results[i])]]

\* writes the records as they are
FormatKeepsKeys(qa_pairs) == qa_pairs

\* format_alpaca_dataset, applied to dicts
FormatAlpacaDataset(qa_pairs) ==
    [i \in 1 .. Len(qa_pairs) |->
        [instruction |-> Get(qa_pairs[i], "instruction", EmptyString),
         input |-> Get(qa_pairs[i], "input", EmptyString),
         output |-> Get(qa_pairs[i], "output", EmptyString)]]

-----------------------------------------------------------------------------
(* extract_json_from_response (llm_utils.py)                               *)
(* A response is a sequence of tokens: the brackets and the comma of JSON, *)
(* a word of prose, and the text of a JSON object (which holds no bracket).*)

ObjectTokens == {"{qa}", "{qia}"}
Tokens == {"[", "]", ",", "prose"} \cup ObjectTokens

\* the dict that json.loads makes of the text of an object
Object(token) ==
    IF token = "{qa}" THEN QA(0, 0, 1) ELSE QAWithInput(0, 0, 2)

\* the list that json.loads makes of the text of an array
List(items) == [nondict |-> "list", items |-> items]

\* re.findall(r"\[[\s\S]*\]", response): the pattern is greedy, so the one
\* match runs from the first "[" to the last "]" of the response
JsonMatches(response) ==
    LET opens == {i \in 1 .. Len(response) : response[i] = "["}
        closes == {i \in 1 .. Len(response) : response[i] = "]"}
    IN  IF opens = {} \/ closes = {} THEN <<>>
        ELSE LET first == CHOOSE i \in opens : \A j \in opens : i <= j
                 last == CHOOSE i \in closes : \A j \in closes : j <= i
             IN  IF first < last THEN <<SubSeq(response, first, last)>>
                 ELSE <<>>

\* the JSON scanner, left to right from token i at nesting depth `depth`:
\* status "ok" with the value and the index after it, "error" for text that
\* is no JSON (JSONDecodeError), "recursion" when the nesting exceeds what
\* the interpreter's stack allows (RecursionError)
RECURSIVE ParseValue(_, _, _)
RECURSIVE ParseItems(_, _, _, _)
ParseValue(tokens, i, depth) ==
    IF i > Len(tokens)
    THEN [status |-> "error", value |-> List(<<>>), next |-> i]
    ELSE IF tokens[i] \in ObjectTokens
    THEN [status |-> "ok", value |-> Object(tokens[i]), next |-> i + 1]
    ELSE IF tokens[i] = "["
    THEN IF depth + 1 > RecursionLimit
         THEN [status |-> "recursion", value |-> List(<<>>), next |-> i]
         ELSE IF i + 1 <= Len(tokens) /\ tokens[i + 1] = "]"
         THEN [status |-> "ok", value |-> List(<<>>), next |-> i + 2]
         ELSE ParseItems(tokens, i + 1, depth + 1, <<>>)
    ELSE [status |-> "error", value |-> List(<<>>), next |-> i]

\* the elements of an array after its "[": a value, then "," or "]"
ParseItems(tokens, i, depth, items) ==
    LET v == ParseValue(tokens, i, depth)
    IN  IF v.status # "ok" THEN v
        ELSE IF v.next > Len(tokens)
        THEN [status |-> "error", value |-> List(<<>>), next |-> v.next]
        ELSE IF tokens[v.next] = ","
        THEN ParseItems(tokens, v.next + 1, depth, Append(items, v.value))
        ELSE IF tokens[v.next] = "]"
        THEN [status |-> "ok", value |-> List(Append(items, v.value)),
              next |-> v.next + 1]
        ELSE [status |-> "error", value |-> List(<<>>), next |-> v.next]

\* json.loads(json_str): the whole text must be one value
JsonLoads(json_str) ==
    LET v == ParseValue(json_str, 1, 0)
    IN  IF v.status = "ok" /\ v.next # Len(json_str) + 1
        THEN [status |-> "error", value |-> List(<<>>), next |-> v.next]
        ELSE v

\* extract_json_from_response: only JSONDecodeError is caught; a span begins
\* with "[", so what parses is a list and the dict branch is never taken
ExtractJsonFromResponse(response) ==
    LET json_matches == JsonMatches(response)
    IN  IF json_matches = <<>>
        THEN [raised |-> FALSE, results |-> <<>>]
        ELSE LET json_obj == JsonLoads(json_matches[1])
             IN  IF json_obj.status = "recursion"
                 THEN [raised |-> TRUE, results |-> <<>>]
                 ELSE IF json_obj.status = "ok"
                 THEN [raised |-> FALSE, results |-> json_obj.value.items]
                 ELSE [raised |-> FALSE, results |-> <<>>]

\* no single call is being followed
IdleCalls ==
    /\ llm_response = <<>>
    /\ extract_out = <<>>
    /\ input_qa_pairs = <<>>
    /\ verified_dataset = <<>>
    /\ verifyLog = <<>>
    /\ verify_pc = "idle"

\* the responses of the model: every text of at most MaxLen tokens
Responses == UNION { [1 .. n -> Tokens] : n \in 0 .. MaxLen }

\* generate_questions_answers from the point where the model has answered
\* with llm_response: extract_json_from_response, then return the result
GenerateFromResponse ==
    /\ extract_out = <<>>
    /\ LET x == ExtractJsonFromResponse(llm_response)
       IN  extract_out' =
              <<[raised |-> x.raised, results |-> x.results,
                 returned |-> IF x.raised THEN <<>>
                              ELSE GenerateQuestionsAnswers(FALSE, x.results).qa_pairs]>>
    /\ UNCHANGED <<llm_response, input_qa_pairs, verified_dataset, verifyLog,
                   verify_pc>>

-----------------------------------------------------------------------------
(* verify_qa_pair, verify_dataset (verification.py)                        *)
(* The response of the verification model is a sequence of characters.     *)

LowerCase == <<"a", "b", "c", "d", "e", "f", "g", "h", "i", "j", "k", "l", "m",
               "n", "o", "p", "q", "r", "s", "t", "u", "v", "w", "x", "y", "z">>
UpperCase == <<"A", "B", "C", "D", "E", "F", "G", "H", "I", "J", "K", "L", "M",
               "N", "O", "P", "Q", "R", "S", "T", "U", "V", "W", "X", "Y", "Z">>

\* str.upper()
Upper(text) ==
    [i \in 1 .. Len(text) |->
        IF \E k \in 1 .. Len(LowerCase) : LowerCase[k] = text[i]
        THEN UpperCase[CHOOSE k \in 1 .. Len(LowerCase) : LowerCase[k] = text[i]]
        ELSE text[i]]

IsSpace(c) == c \in {" ", "\n", "\t"}

\* str.strip()
RECURSIVE LStrip(_)
LStrip(text) ==
    IF text # <<>> /\ IsSpace(text[1]) THEN LStrip(Tail(text)) ELSE text

RECURSIVE RStrip(_)
RStrip(text) ==
    IF text # <<>> /\ IsSpace(text[Len(text)])
    THEN RStrip(SubSeq(text, 1, Len(text) - 1))
    ELSE text

Strip(text) == LStrip(RStrip(text))

\* text[n:]
Slice(text, n) ==
    IF n >= Len(text) THEN <<>> ELSE SubSeq(text, n + 1, Len(text))

\* str.startswith(prefix)
StartsWith(text, prefix) ==
    /\ Len(text) >= Len(prefix)
    /\ SubSeq(text, 1, Len(prefix)) = prefix

CORRECT == <<"C", "O", "R", "R", "E", "C", "T">>
INCORRECT == <<"I", "N">> \o CORRECT

\* the classification of a response at the end of verify_qa_pair: the prefix
\* is looked for in response.strip().upper(), the explanation is cut from
\* response itself
Classify(response) ==
    IF StartsWith(Upper(Strip(response)), CORRECT)
    THEN [status |-> "CORRECT", explanation |-> Strip(Slice(response, 7))]
    ELSE IF StartsWith(Upper(Strip(response)), INCORRECT)
    THEN [status |-> "INCORRECT", explanation |-> Strip(Slice(response, 9))]
    ELSE [status |-> "UNKNOWN",
          explanation |-> <<"Unexpected verification response">>]

\* str(e) of the exception of a model invocation
ErrorMessage == <<"str(e)">>

\* the exception of the model invocation leaves verify_qa_pair
VerifyPropagates(qa_pair, failed, response) ==
    IF VerifyRaises(qa_pair) \/ failed
    THEN [raised |-> TRUE, result |-> <<>>]
    ELSE [raised |-> FALSE, result |-> Classify(response)]

\* verify_qa_pair: the record's keys are read first, outside the try block;
\* an exception of the model invocation is caught and gives ERROR
VerifyQaPair(qa_pair, failed, response) ==
    IF VerifyRaises(qa_pair)
    THEN [raised |-> TRUE, result |-> <<>>]
    ELSE IF failed
    THEN [raised |-> FALSE,
          result |-> [status |-> "ERROR", explanation |-> ErrorMessage]]
    ELSE [raised |-> FALSE, result |-> Classify(response)]

\* the responses of the verification model: a verdict in some letter case or
\* another word, with or without an explanation and surrounding whitespace
Verdicts ==
    { CORRECT, <<"C", "o", "r", "r", "e", "c", "t">>, INCORRECT,
      <<"m", "a", "y", "b", "e">> }
Because == <<" ", "b", "e", "c", "a", "u", "s", "e", " ", "X">>
VerifyResponses ==
    { pad \o verdict \o rest :
         pad \in {<<>>, <<" ", " ">>}, verdict \in Verdicts,
         rest \in {<<>>, Because, Because \o <<"\n">>} }

\* the lists passed to verify_dataset: records with and without input, and a
\* record that lacks a key
VerifyRecords == {QA(0, 0, 1), QAWithInput(0, 0, 2), QAWithoutOutput(0, 0, 3)}
VerifyInputs == UNION { [1 .. n -> VerifyRecords] : n \in 0 .. MaxPairs }

\* one iteration of the loop of verify_dataset: verify_qa_pair, whose model
\* invocation raises (failed) or answers with response, then the append
VerifyNext(failed, response) ==
    /\ verify_pc = "loop"
    /\ Len(verified_dataset) < Len(input_qa_pairs)
    /\ LET index == Len(verified_dataset) + 1
           qa_pair == input_qa_pairs[index]
           r == VerifyQaPair(qa_pair, failed, response)
       IN  IF r.raised
           THEN /\ verify_pc' = IF failed /\ ~VerifyRaises(qa_pair)
                                THEN "invocation raised" ELSE "raised"
                /\ UNCHANGED <<verified_dataset, verifyLog>>
           ELSE /\ verified_dataset' =
                      Append(verified_dataset,
                             With(qa_pair, "verification", r.result))
                /\ verifyLog' = Append(verifyLog,
                      [index |-> index, failed |-> failed,
                       response |-> response, result |-> r.result])
                /\ UNCHANGED verify_pc
    /\ UNCHANGED <<llm_response, extract_out, input_qa_pairs>>

\* verify_dataset returns verified_dataset
VerifyReturn ==
    /\ verify_pc = "loop"
    /\ Len(verified_dataset) = Len(input_qa_pairs)
    /\ verify_pc' = "returned"
    /\ UNCHANGED <<llm_response, extract_out, input_qa_pairs,
                   verified_dataset, verifyLog>>

-----------------------------------------------------------------------------
(* save_mined_data (file_processor.py)                                     *)

\* writes the batch alone, whatever the file holds
SaveOverwrites(file, data) ==
    IF \E i \in 1 .. Len(data) : ~IsDict(data[i])
    THEN [raised |-> TRUE, file |-> file]
    ELSE [raised |-> FALSE, file |-> JsonFile(FormatAlpacaDataset(data))]

\* drops the oldest record of the file when it appends
SaveDropsOldest(file, data) ==
    IF \E i \in 1 .. Len(data) : ~IsDict(data[i])
    THEN [raised |-> TRUE, file |-> file]
    ELSE [raised |-> FALSE,
          file |-> JsonFile((IF file.data = <<>> THEN <<>> ELSE Tail(file.data))
                            \o FormatAlpacaDataset(data))]

\* writes what the file holds a second time, before the batch
SaveReappends(file, data) ==
    IF \E i \in 1 .. Len(data) : ~IsDict(data[i])
    THEN [raised |-> TRUE, file |-> file]
    ELSE [raised |-> FALSE,
          file |-> JsonFile(file.data \o file.data \o FormatAlpacaDataset(data))]

\* writes the batch in front of what the file holds
SavePrepends(file, data) ==
    IF \E i \in 1 .. Len(data) : ~IsDict(data[i])
    THEN [raised |-> TRUE, file |-> file]
    ELSE [raised |-> FALSE,
          file |-> JsonFile(FormatAlpacaDataset(data) \o file.data)]

\* save_mined_data as a whole: dict(qa_pair) raises for an element that is no
\* mapping, before the file is touched; a file that exists with size > 0 is
\* read and extended, otherwise the formatted batch is written
SaveMinedData(file, data) ==
    IF \E i \in 1 .. Len(data) : ~IsDict(data[i])
    THEN [raised |-> TRUE, file |-> file]
    ELSE LET formatted_data == FormatAlpacaDataset(data)
         IN  IF file.state = "json"
             THEN [raised |-> FALSE,
                   file |-> JsonFile(file.data \o formatted_data)]
             ELSE [raised |-> FALSE, file |-> JsonFile(formatted_data)]

-----------------------------------------------------------------------------
(* cli.main, start_mining, process_file                                    *)

InitRun ==
    /\ pc = "main"
    /\ verify \in BOOLEAN
    /\ docIdx = 1
    /\ chunkIdx = 1
    /\ file_mined_data = <<>>
    /\ mined_data = <<>>
    /\ unique_output_file = EmptyString
    /\ pending = <<>>
    /\ disk = Absent
    /\ initial_file = disk
    /\ saves = <<>>
    /\ main_mined_data = <<>>
    /\ output_file_path = EmptyString
    /\ cost_analyzer_bound = FALSE
    /\ caught = "none"
    /\ printed = <<>>
    /\ produced = <<>>
    /\ persisted = <<>>
    /\ abortedIn = "none"
    /\ written = {}

RECURSIVE CountRecords(_)
CountRecords(log) ==
    IF log = <<>> THEN 0 ELSE Len(log[1].added) + CountRecords(Tail(log))

RECURSIVE CountFailures(_)
CountFailures(log) ==
    IF log = <<>> THEN 0
    ELSE (IF log[1].failed THEN 1 ELSE 0) + CountFailures(Tail(log))

\* an exception or interrupt unwinds process_file and start_mining up to the
\* except clauses of cli.main; their local lists are gone
Unwind(clause, where) ==
    /\ pc' = "summary"
    /\ caught' = clause
    /\ abortedIn' = where
    /\ file_mined_data' = <<>>
    /\ mined_data' = <<>>
    /\ pending' = <<>>

\* cli.main up to the first file: initialize_llm gives a model, the cost
\* analyzer is built, start_mining derives the output path
StartMining(output, timestamp) ==
    /\ pc = "main"
    /\ pc' = "files"
    /\ cost_analyzer_bound' = TRUE
    /\ unique_output_file' = GenerateUniqueFilename(output, timestamp)
    /\ UNCHANGED <<written, initial_file, saves, verify, docIdx, chunkIdx, file_mined_data, mined_data,
                   pending, disk, main_mined_data, output_file_path, caught,
                   printed, produced, persisted, abortedIn>>

\* initialize_llm returns (None, None): main returns from inside the try
\* block, and the finally block runs
InitializeLlmFails ==
    /\ pc = "main"
    /\ pc' = "summary"
    /\ UNCHANGED <<written, initial_file, saves, verify, docIdx, chunkIdx, file_mined_data, mined_data,
                   unique_output_file, pending, disk, main_mined_data,
                   output_file_path, cost_analyzer_bound, caught, printed,
                   produced, persisted, abortedIn>>

\* the extensions whose extract_text_from_* function wraps every exception
\* in TextExtractionError
WrappedExtensions == {".pdf", ".docx", ".json", ".csv", ".xlsx", ".xls"}

\* what becomes of reading a file: it has text, it is blank, it is gone
\* since the directory was listed, it cannot be opened (OSError), it is no
\* UTF-8 (UnicodeDecodeError), or the library that parses it raises
ReadEvents(extension) ==
    {"text", "blank", "missing", "os_error", "undecodable"}
    \cup (IF extension \in WrappedExtensions \cup {".html"}
          THEN {"library_error"} ELSE {})

\* the lower-case extension of a file name
Extension(filename) ==
    CASE filename = "a.txt" -> ".txt"
      [] filename = "b.md" -> ".md"

\* the text process_file gets for a file (lines 124-139), "" standing for the
\* empty string and "text" for any other; raised when an exception leaves it
\*   .html:  UnstructuredHTMLLoader(file_path).load(), in no try block
\*   others: extract_text, which raises FileNotFoundError for a missing file,
\*           calls extract_text_from_code outside its try block, and catches
\*           TextExtractionError alone around the document functions
ExtractText(extension, event) ==
    IF event = "text" THEN [raised |-> FALSE, text |-> "text"]
    ELSE IF event = "blank" THEN [raised |-> FALSE, text |-> ""]
    ELSE IF event = "missing" THEN [raised |-> TRUE, text |-> ""]
    ELSE IF extension = ".html" THEN [raised |-> TRUE, text |-> ""]
    ELSE IF extension \in WrappedExtensions
    THEN [raised |-> FALSE, text |-> ""]
    ELSE IF event = "undecodable"
    THEN \* the read is tried again as latin-1, which decodes any bytes
         [raised |-> FALSE, text |-> "text"]
    ELSE \* .txt and code files: the exception of open() is not caught
         [raised |-> TRUE, text |-> ""]

\* process_file up to the chunk loop: an exception of the extraction leaves
\* it, a file without text returns [] at once
BeginFile(event) ==
    /\ pc = "files"
    /\ docIdx <= NumDocs
    /\ event \in ReadEvents(Extension(Files[docIdx]))
    /\ LET extracted == ExtractText(Extension(Files[docIdx]), event)
       IN  IF extracted.raised
           THEN /\ Unwind("Exception", "extraction")
                /\ UNCHANGED <<docIdx, chunkIdx>>
           ELSE IF extracted.text # ""
           THEN /\ pc' = "chunks"
                /\ chunkIdx' = 1
                /\ file_mined_data' = <<>>
                /\ UNCHANGED <<docIdx, caught, abortedIn, mined_data, pending>>
           ELSE /\ docIdx' = docIdx + 1
                /\ UNCHANGED <<pc, chunkIdx, file_mined_data, caught,
                               abortedIn, mined_data, pending>>
    /\ UNCHANGED <<written, initial_file, saves, verify, unique_output_file, disk,
                   main_mined_data, output_file_path, cost_analyzer_bound,
                   printed, produced, persisted>>

\* one iteration of the chunk loop of process_file: process_text, then
\* verify_dataset when args.verify, then mined_data.extend
ProcessChunk(failed, extracted, results) ==
    /\ pc = "chunks"
    /\ chunkIdx <= NumChunks
    /\ LET gen == GenerateQuestionsAnswers(failed, extracted)
           ver == VerifyDataset(gen.qa_pairs, results)
           added == IF verify THEN ver.verified ELSE gen.qa_pairs
       IN  IF gen.raised
           THEN /\ Unwind("Exception", "generation")
                /\ UNCHANGED <<chunkIdx, produced>>
           ELSE IF verify /\ ver.raised
           THEN /\ Unwind("Exception", "verification")
                /\ UNCHANGED <<chunkIdx, produced>>
           ELSE /\ file_mined_data' = file_mined_data \o added
                /\ chunkIdx' = chunkIdx + 1
                /\ produced' = Append(produced,
                       [doc |-> docIdx, chunk |-> chunkIdx, failed |-> failed,
                        generated |-> gen.qa_pairs, added |-> added])
                /\ UNCHANGED <<pc, caught, abortedIn, mined_data, pending>>
    /\ UNCHANGED <<written, initial_file, saves, verify, docIdx, unique_output_file, disk, main_mined_data,
                   output_file_path, cost_analyzer_bound, printed, persisted>>

\* a save_mined_data call that is left out when the file gave no records
SaveOpenSkippingEmpty ==
    /\ pc = "chunks"
    /\ chunkIdx > NumChunks
    /\ LET r == SaveMinedData(disk, file_mined_data)
       IN  IF file_mined_data = <<>>
           THEN /\ pc' = "files"
                /\ docIdx' = docIdx + 1
                /\ UNCHANGED <<disk, written, pending, caught, abortedIn,
                               file_mined_data, mined_data>>
           ELSE IF r.raised
           THEN /\ Unwind("Exception", "save")
                /\ UNCHANGED <<disk, written, docIdx>>
           ELSE /\ pc' = "saving"
                /\ pending' = r.file.data
                /\ disk' = EmptyFile
                /\ written' = written \cup {OutputFile(unique_output_file)}
                /\ UNCHANGED <<caught, abortedIn, file_mined_data, mined_data,
                               docIdx>>
    /\ UNCHANGED <<initial_file, saves, verify, chunkIdx, unique_output_file,
                   main_mined_data, output_file_path, cost_analyzer_bound,
                   printed, produced, persisted>>

\* save_mined_data up to open(output_file_path, "w"), which truncates the file
SaveOpen ==
    /\ pc = "chunks"
    /\ chunkIdx > NumChunks
    /\ LET r == SaveMinedData(disk, file_mined_data)
       IN  IF r.raised
           THEN /\ Unwind("Exception", "save")
                /\ UNCHANGED <<disk, written>>
           ELSE /\ pc' = "saving"
                /\ pending' = r.file.data
                /\ disk' = EmptyFile
                /\ written' = written \cup {OutputFile(unique_output_file)}
                /\ UNCHANGED <<caught, abortedIn, file_mined_data, mined_data>>
    /\ UNCHANGED <<initial_file, saves, verify, docIdx, chunkIdx, unique_output_file,
                   main_mined_data, output_file_path, cost_analyzer_bound,
                   printed, produced, persisted>>

\* json.dump and close; process_file returns its list and start_mining
\* extends its own with it
SaveWrite ==
    /\ pc = "saving"
    /\ disk' = JsonFile(pending)
    /\ persisted' = pending
    /\ saves' = Append(saves, file_mined_data)
    /\ pending' = <<>>
    /\ mined_data' = mined_data \o file_mined_data
    /\ file_mined_data' = <<>>
    /\ docIdx' = docIdx + 1
    /\ pc' = "files"
    /\ UNCHANGED <<written, initial_file, verify, chunkIdx, unique_output_file, main_mined_data,
                   output_file_path, cost_analyzer_bound, caught, printed,
                   produced, abortedIn>>

\* the failure of the write is logged and the next file is begun
SaveFailureSwallowed ==
    /\ pc = "saving"
    /\ pc' = "files"
    /\ abortedIn' = "io"
    /\ docIdx' = docIdx + 1
    /\ pending' = <<>>
    /\ mined_data' = mined_data \o file_mined_data
    /\ file_mined_data' = <<>>
    /\ UNCHANGED <<written, initial_file, saves, verify, chunkIdx, unique_output_file,
                   disk, main_mined_data, output_file_path,
                   cost_analyzer_bound, caught, printed, produced, persisted>>

\* the write fails (OSError): nothing catches it below cli.main
SaveFails ==
    /\ pc = "saving"
    /\ Unwind("Exception", "io")
    /\ UNCHANGED <<written, initial_file, saves, verify, docIdx, chunkIdx, unique_output_file, disk,
                   main_mined_data, output_file_path, cost_analyzer_bound,
                   printed, produced, persisted>>

\* start_mining returns (mined_data, unique_output_file) to cli.main
FinishMining ==
    /\ pc = "files"
    /\ docIdx > NumDocs
    /\ main_mined_data' = mined_data
    /\ output_file_path' = unique_output_file
    /\ pc' = "summary"
    /\ UNCHANGED <<written, initial_file, saves, verify, docIdx, chunkIdx, file_mined_data, mined_data,
                   unique_output_file, pending, disk, cost_analyzer_bound,
                   caught, printed, produced, persisted, abortedIn>>

\* KeyboardInterrupt while start_mining runs: no handler below cli.main
Interrupt ==
    /\ pc \in {"files", "chunks", "saving"}
    /\ Unwind("KeyboardInterrupt", "interrupt")
    /\ UNCHANGED <<written, initial_file, saves, verify, docIdx, chunkIdx, unique_output_file, disk,
                   main_mined_data, output_file_path, cost_analyzer_bound,
                   printed, produced, persisted>>

\* the finally block of cli.main: print_summary(mined_data, cost_analyzer,
\* output_file_path, args.verify); reading an unassigned local raises
PrintSummary ==
    /\ pc = "summary"
    /\ IF cost_analyzer_bound
       THEN /\ printed' = <<[count |-> Len(main_mined_data),
                             path |-> output_file_path]>>
            /\ pc' = "exit"
       ELSE /\ pc' = "raised"
            /\ UNCHANGED printed
    /\ UNCHANGED <<written, initial_file, saves, verify, docIdx, chunkIdx, file_mined_data, mined_data,
                   unique_output_file, pending, disk, main_mined_data,
                   output_file_path, cost_analyzer_bound, caught, produced,
                   persisted, abortedIn>>

\* the model's answers of a run stay within MaxRecords and MaxFailures
WithinBounds(failed, extracted) ==
    /\ failed => extracted = <<>> /\ CountFailures(produced) < MaxFailures
    /\ CountRecords(produced) + Len(extracted) <= MaxRecords

\* the in-memory records of the batches passed to save_mined_data: a record
\* without input, a verified record, a record without output
SaveRecords ==
    { QA(1, 1, 1),
      With(QAWithInput(1, 2, 1), "verification",
           [status |-> "CORRECT", explanation |-> <<"E">>]),
      QAWithoutOutput(2, 1, 1) }

SaveBatches ==
    {<<>>} \cup { <<a>> : a \in SaveRecords }
           \cup { <<a, b>> : a, b \in SaveRecords }

\* the output file as a save_mined_data call can find it: absent, empty, or
\* holding an array written before
InitialFiles ==
    { Absent, EmptyFile, JsonFile(FormatAlpacaDataset(<<QA(1, 1, 1)>>)) }

\* one whole save_mined_data(mined_data, path) call that returns
Persist(batch) ==
    /\ Len(saves) < MaxSaves
    /\ LET r == SaveMinedData(disk, batch)
       IN  /\ ~r.raised
           /\ disk' = r.file
           /\ persisted' = r.file.data
           /\ saves' = Append(saves, batch)
           /\ written' = written \cup {unique_output_file}
    /\ UNCHANGED <<pc, verify, docIdx, chunkIdx, file_mined_data, mined_data,
                   unique_output_file, pending, initial_file, main_mined_data,
                   output_file_path, cost_analyzer_bound, caught, printed,
                   produced, abortedIn>>

\* the steps of one call of generate_questions_answers (llm_utils.py:65-89)
\* or of verify_qa_pair (verification.py:36-66)

\* no call is going on
IdleSteps ==
    /\ call_pc = "idle"
    /\ call_kind = "generation"
    /\ has_rate_limiter = FALSE
    /\ call_tokens = [input |-> 0, output |-> 0]
    /\ events = <<>>
    /\ started = 0

\* the step after the prompt's tokens are counted, with no test of the limiter
AfterCountUnthrottled(configured) == "invoke"

\* if rate_limiter: rate_limiter.wait(input_tokens)
AfterCount(configured) == IF configured THEN "admit" ELSE "invoke"

\* input_tokens = count_tokens(...) of the prompt
CountPrompt(kind, input_tokens) ==
    /\ call_pc = "idle"
    /\ started < MaxModelCalls
    /\ started' = started + 1
    /\ call_kind' = kind
    /\ call_tokens' = [input |-> input_tokens, output |-> 0]
    /\ events' = <<[step |-> "count_prompt", time |-> now, call |-> 0]>>
    /\ call_pc' = AfterCount(has_rate_limiter)
    /\ UNCHANGED <<rlVars, ledgerVars, has_rate_limiter>>

\* rate_limiter.wait(input_tokens); its IndexError is raised outside the try
\* block and ends the call
Admit(over1, over2) ==
    /\ call_pc = "admit"
    /\ Wait(call_tokens.input, over1, over2)
    /\ IF waitLog'[Len(waitLog')].raised
       THEN /\ call_pc' = "idle"
            /\ UNCHANGED events
       ELSE /\ call_pc' = "invoke"
            /\ events' = Append(events, [step |-> "admit", time |-> now',
                                         call |-> Len(waitLog')])
    /\ UNCHANGED <<ledgerVars, call_kind, has_rate_limiter, call_tokens, started>>

\* an invocation whose failure is charged to the ledger, with no response
InvokeChargesFailure(failed) ==
    /\ call_pc = "invoke"
    /\ events' = Append(events, [step |-> "invoke", time |-> now, call |-> 0])
    /\ call_pc' = IF failed THEN "idle" ELSE "count_response"
    /\ IF failed
       THEN IF call_kind = "generation"
            THEN AddUsage(call_tokens.input, 0)
            ELSE AddVerificationUsage(call_tokens.input, 0)
       ELSE UNCHANGED ledgerVars
    /\ UNCHANGED <<rlVars, call_kind, has_rate_limiter, call_tokens, started>>

\* chain.invoke(...) inside try/except Exception: a failure ends the call
\* (the generator returns [], the verifier an ERROR result)
Invoke(failed) ==
    /\ call_pc = "invoke"
    /\ events' = Append(events, [step |-> "invoke", time |-> now, call |-> 0])
    /\ call_pc' = IF failed THEN "idle" ELSE "count_response"
    /\ UNCHANGED <<rlVars, ledgerVars, call_kind, has_rate_limiter, call_tokens,
                   started>>

\* output_tokens = count_tokens(response)
CountResponse(output_tokens) ==
    /\ call_pc = "count_response"
    /\ call_tokens' = [call_tokens EXCEPT !.output = output_tokens]
    /\ events' = Append(events, [step |-> "count_response", time |-> now,
                                 call |-> 0])
    /\ call_pc' = "record"
    /\ UNCHANGED <<rlVars, ledgerVars, call_kind, has_rate_limiter, started>>

\* cost_analyzer.add_usage or cost_analyzer.add_verification_usage
Record ==
    /\ call_pc = "record"
    /\ IF call_kind = "generation"
       THEN AddUsage(call_tokens.input, call_tokens.output)
       ELSE AddVerificationUsage(call_tokens.input, call_tokens.output)
    /\ events' = Append(events, [step |-> "record", time |-> now, call |-> 0])
    /\ call_pc' = "idle"
    /\ UNCHANGED <<rlVars, call_kind, has_rate_limiter, call_tokens, started>>

\* time passes between two calls
Pause(d) ==
    /\ call_pc = "idle"
    /\ Tick(d)
    /\ UNCHANGED <<ledgerVars, stepVars, workerVars>>

\* two workers that share one RateLimiter and one CostAnalyzer; each makes
\* one rate_limiter.wait(tokens) call and then one add_usage or
\* add_verification_usage call.  The statements of rate_limiter.py:18-39 and
\* cost_analyzer.py:30-42 are the steps; a thread switch can fall between
\* the read and the write of one `+=`.

Workers == {1, 2}

\* no worker has been started
IdleWorkers ==
    /\ workers = [w \in Workers |->
                     [pc |-> "done", kind |-> "generation", tokens |-> 0,
                      output_tokens |-> 0, which |-> "request",
                      current_time |-> 0, wake |-> 0, stmt |-> 1, reg |-> 0]]
    /\ use_mutex = FALSE
    /\ lock = 0

\* whether a caller can take the mutex
Acquirable(holder) == holder = 0

\* a worker enters a call at once, or after taking the mutex
MayEnter == use_mutex => Acquirable(lock)

\* the deque and the limit of the RateLimit a worker is in
EntriesOf(which) == IF which = "request" THEN request_limit ELSE token_limit
LimitOf(which) == IF which = "request" THEN requests_per_minute ELSE tokens_per_minute
CountOf(worker) == IF worker.which = "request" THEN DefaultCount ELSE worker.tokens

\* the statements of add_usage that add the output amounts to the input
\* counters and the input amounts to the output counters
StatementsSwapped(kind, input_tokens, output_tokens) ==
    LET cost == CalculateCost(input_tokens, output_tokens)
    IN  IF kind = "generation"
        THEN << [target |-> 1, delta |-> output_tokens],
                [target |-> 2, delta |-> input_tokens],
                [target |-> 3, delta |-> cost.output_cost],
                [target |-> 4, delta |-> cost.input_cost] >>
        ELSE << [target |-> 5, delta |-> input_tokens],
                [target |-> 6, delta |-> cost.input_cost] >>

\* the `+=` statements of add_usage (cost_analyzer.py:32-35) and of
\* add_verification_usage (lines 40-41): the counter and the amount added;
\* the counters are numbered as in Counters
Statements(kind, input_tokens, output_tokens) ==
    LET cost == CalculateCost(input_tokens, output_tokens)
    IN  IF kind = "generation"
        THEN << [target |-> 1, delta |-> input_tokens],
                [target |-> 2, delta |-> output_tokens],
                [target |-> 3, delta |-> cost.input_cost],
                [target |-> 4, delta |-> cost.output_cost] >>
        ELSE << [target |-> 5,
                 delta |-> VerificationTokens(input_tokens, output_tokens)],
                [target |-> 6,
                 delta |-> cost.input_cost + cost.output_cost] >>

\* the attributes of the CostAnalyzer
Counters ==
    << total_input_tokens, total_output_tokens, total_input_cost,
       total_output_cost, total_verification_tokens, total_verification_cost >>

\* one attribute is assigned
SetCounter(target, value) ==
    /\ total_input_tokens' = IF target = 1 THEN value ELSE total_input_tokens
    /\ total_output_tokens' = IF target = 2 THEN value ELSE total_output_tokens
    /\ total_input_cost' = IF target = 3 THEN value ELSE total_input_cost
    /\ total_output_cost' = IF target = 4 THEN value ELSE total_output_cost
    /\ total_verification_tokens' =
           IF target = 5 THEN value ELSE total_verification_tokens
    /\ total_verification_cost' =
           IF target = 6 THEN value ELSE total_verification_cost

\* the deque of the RateLimit a worker is in is assigned
SetEntries(which, entries) ==
    /\ request_limit' = IF which = "request" THEN entries ELSE request_limit
    /\ token_limit' = IF which = "request" THEN token_limit ELSE entries

\* a worker calls rate_limiter.wait(tokens)
EnterWait(w) ==
    /\ workers[w].pc = "start"
    /\ MayEnter
    /\ lock' = IF use_mutex THEN w ELSE lock
    /\ workers' = [workers EXCEPT ![w].pc = "check", ![w].which = "request"]
    /\ UNCHANGED <<rlVars, ledgerVars, use_mutex>>

\* RateLimit.wait up to the sleep: current_time = time.time(), the purge, the
\* sum and the comparison with the limit (rate_limiter.py:19-28)
Check(w) ==
    /\ workers[w].pc = "check"
    /\ LET me == workers[w]
           purged == Purge(EntriesOf(me.which), now)
           over == OverLimit(TotalCount(purged), CountOf(me), LimitOf(me.which))
           sleep_time == IF over /\ purged # <<>>
                         THEN SleepTime(purged[1].t, now) ELSE 0
       IN  /\ SetEntries(me.which, purged)
           /\ workers' =
                 [workers EXCEPT
                    ![w].current_time = now,
                    ![w].wake = now + sleep_time,
                    ![w].pc = IF over /\ purged = <<>> THEN "raised"
                              ELSE IF sleep_time > 0 THEN "sleeping"
                              ELSE "append"]
    /\ UNCHANGED <<now, reqHist, tokHist, waitLog, ledgerVars, use_mutex, lock>>

\* time.sleep(sleep_time) returns; current_time = time.time() and the second
\* purge (rate_limiter.py:33-37)
Wake(w) ==
    /\ workers[w].pc = "sleeping"
    /\ LET t == IF now > workers[w].wake THEN now ELSE workers[w].wake
       IN  /\ now' = t
           /\ SetEntries(workers[w].which, Purge(EntriesOf(workers[w].which), t))
           /\ workers' = [workers EXCEPT ![w].current_time = t,
                                         ![w].pc = "append"]
    /\ UNCHANGED <<reqHist, tokHist, waitLog, ledgerVars, use_mutex, lock>>

\* self.entries.append((current_time, count)) (rate_limiter.py:39); after the
\* append to token_limit the call returns
AppendEntry(w) ==
    /\ workers[w].pc = "append"
    /\ LET me == workers[w]
           entry == [t |-> me.current_time, c |-> CountOf(me)]
       IN  /\ SetEntries(me.which, Append(EntriesOf(me.which), entry))
           /\ IF me.which = "request"
              THEN /\ reqHist' = Append(reqHist, entry)
                   /\ workers' = [workers EXCEPT ![w].which = "token",
                                                 ![w].pc = "check"]
                   /\ UNCHANGED <<tokHist, lock>>
              ELSE /\ tokHist' = Append(tokHist, entry)
                   /\ workers' = [workers EXCEPT ![w].pc = "waited"]
                   /\ lock' = IF use_mutex THEN 0 ELSE lock
                   /\ UNCHANGED reqHist
    /\ UNCHANGED <<now, waitLog, ledgerVars, use_mutex>>

\* a worker calls add_usage or add_verification_usage
EnterLedger(w) ==
    /\ workers[w].pc = "waited"
    /\ MayEnter
    /\ lock' = IF use_mutex THEN w ELSE lock
    /\ workers' = [workers EXCEPT ![w].pc = "load", ![w].stmt = 1]
    /\ UNCHANGED <<rlVars, ledgerVars, use_mutex>>

\* the read of the attribute in `self.<attribute> += amount`
Load(w) ==
    /\ workers[w].pc = "load"
    /\ LET me == workers[w]
           statement == Statements(me.kind, me.tokens, me.output_tokens)[me.stmt]
       IN  workers' = [workers EXCEPT ![w].reg = Counters[statement.target],
                                      ![w].pc = "store"]
    /\ UNCHANGED <<rlVars, ledgerVars, use_mutex, lock>>

\* the write of the attribute in `self.<attribute> += amount`; after the last
\* statement the call returns
Store(w) ==
    /\ workers[w].pc = "store"
    /\ LET me == workers[w]
           statements == Statements(me.kind, me.tokens, me.output_tokens)
           statement == statements[me.stmt]
           cost == CalculateCost(me.tokens, me.output_tokens)
       IN  /\ SetCounter(statement.target, me.reg + statement.delta)
           /\ IF me.stmt < Len(statements)
              THEN /\ workers' = [workers EXCEPT ![w].stmt = me.stmt + 1,
                                                 ![w].pc = "load"]
                   /\ UNCHANGED <<usageLog, lock>>
              ELSE /\ workers' = [workers EXCEPT ![w].pc = "done"]
                   /\ lock' = IF use_mutex THEN 0 ELSE lock
                   /\ usageLog' = Append(usageLog,
                          [kind |-> me.kind, input_tokens |-> me.tokens,
                           output_tokens |-> me.output_tokens,
                           returned |->
                              IF me.kind = "generation"
                              THEN <<cost.input_cost, cost.output_cost>>
                              ELSE <<cost.input_cost + cost.output_cost>>])
    /\ UNCHANGED <<rlVars, summary, use_mutex>>

\* a run that uses neither a rate limiter nor the ledger's contents
NoCalls == UNCHANGED <<rlVars, ledgerVars, callVars, stepVars, workerVars>>

-----------------------------------------------------------------------------
(* Specifications.                                                         *)

\* a mining run
Init == InitRL /\ InitLedger /\ IdleSteps /\ IdleWorkers /\ InitRun /\ IdleCalls

Next ==
    \/ StartMining(DefaultOutput, StartTime) /\ NoCalls
    \/ InitializeLlmFails /\ NoCalls
    \/ \E event \in ReadEvents(".html") : BeginFile(event) /\ NoCalls
    \/ \E failed \in BOOLEAN, extracted \in Extracted(docIdx, chunkIdx) :
          /\ WithinBounds(failed, extracted)
          /\ \E results \in [1 .. Len(extracted) -> VerificationResults] :
                ProcessChunk(failed, extracted, results) /\ NoCalls
    \/ SaveOpen /\ NoCalls
    \/ SaveWrite /\ NoCalls
    \/ SaveFails /\ NoCalls
    \/ FinishMining /\ NoCalls
    \/ Interrupt /\ NoCalls
    \/ PrintSummary /\ NoCalls

Spec == Init /\ [][Next]_vars

\* mining runs with any configured output and started at any time, in which
\* the model answers every call and nothing interrupts
InitRuns == Init /\ verify = FALSE

NextRuns ==
    \/ \E output \in Outputs, timestamp \in Timestamps :
          StartMining(output, timestamp) /\ NoCalls
    \/ \E event \in {"text", "blank"} : BeginFile(event) /\ NoCalls
    \/ \E extracted \in Extracted(docIdx, chunkIdx) :
          /\ WithinBounds(FALSE, extracted)
          /\ ProcessChunk(FALSE, extracted, <<>>) /\ NoCalls
    \/ SaveOpen /\ NoCalls
    \/ SaveWrite /\ NoCalls
    \/ SaveFails /\ NoCalls
    \/ FinishMining /\ NoCalls
    \/ PrintSummary /\ NoCalls

SpecRuns == InitRuns /\ [][NextRuns]_vars

\* the parts of the run that no run is going on in
IdleRun == InitRun /\ verify = FALSE

\* save_mined_data calls on one path
InitSave ==
    /\ InitRL /\ InitLedger /\ IdleSteps /\ IdleWorkers /\ IdleCalls
    /\ pc = "main"
    /\ verify = FALSE
    /\ docIdx = 1
    /\ chunkIdx = 1
    /\ file_mined_data = <<>>
    /\ mined_data = <<>>
    /\ unique_output_file = UniqueName
    /\ pending = <<>>
    /\ disk \in InitialFiles
    /\ initial_file = disk
    /\ saves = <<>>
    /\ main_mined_data = <<>>
    /\ output_file_path = EmptyString
    /\ cost_analyzer_bound = FALSE
    /\ caught = "none"
    /\ printed = <<>>
    /\ produced = <<>>
    /\ persisted = disk.data
    /\ abortedIn = "none"
    /\ written = {}

NextSave == \E batch \in SaveBatches : Persist(batch) /\ NoCalls

SpecSave == InitSave /\ [][NextSave]_vars

\* calls on one RateLimiter
InitRateLimiter == InitRL /\ InitLedger /\ IdleSteps /\ IdleWorkers /\ IdleRun /\ IdleCalls

\* calls on one CostAnalyzer
InitCostAnalyzer == InitRL /\ InitLedger /\ IdleSteps /\ IdleWorkers /\ IdleRun /\ IdleCalls

NextCostAnalyzer ==
    \/ \E i, o \in TokenAmounts : AddUsage(i, o) /\ UNCHANGED <<rlVars, runVars, callVars, stepVars, workerVars>>
    \/ \E i, o \in TokenAmounts : AddVerificationUsage(i, o) /\ UNCHANGED <<rlVars, runVars, callVars, stepVars, workerVars>>
    \/ GetSummary /\ UNCHANGED <<rlVars, runVars, callVars, stepVars, workerVars>>

SpecCostAnalyzer == InitCostAnalyzer /\ [][NextCostAnalyzer]_vars

NextRateLimiter ==
    \/ \E tokens \in TokenCosts, over1, over2 \in 0 .. MaxOversleep :
          Wait(tokens, over1, over2) /\ UNCHANGED <<ledgerVars, runVars, callVars, stepVars, workerVars>>
    \/ \E d \in TickSteps : Tick(d) /\ UNCHANGED <<ledgerVars, runVars, callVars, stepVars, workerVars>>

SpecRateLimiter == InitRateLimiter /\ [][NextRateLimiter]_vars

\* model calls of the generator and of the verifier, one after the other,
\* with a rate limiter (Groq) or without one (Ollama)
InitCall ==
    /\ InitRL /\ InitLedger /\ IdleRun /\ IdleCalls /\ IdleWorkers
    /\ call_pc = "idle"
    /\ call_kind = "generation"
    /\ has_rate_limiter \in BOOLEAN
    /\ call_tokens = [input |-> 0, output |-> 0]
    /\ events = <<>>
    /\ started = 0

NextCall ==
    \/ \E kind \in {"generation", "verification"}, input_tokens \in PromptTokens :
          CountPrompt(kind, input_tokens) /\ UNCHANGED <<runVars, callVars, workerVars>>
    \/ \E over1, over2 \in 0 .. MaxOversleep :
          Admit(over1, over2) /\ UNCHANGED <<runVars, callVars, workerVars>>
    \/ \E failed \in BOOLEAN : Invoke(failed) /\ UNCHANGED <<runVars, callVars, workerVars>>
    \/ \E output_tokens \in ResponseTokens :
          CountResponse(output_tokens) /\ UNCHANGED <<runVars, callVars, workerVars>>
    \/ Record /\ UNCHANGED <<runVars, callVars, workerVars>>
    \/ \E d \in TickSteps : Pause(d) /\ UNCHANGED <<runVars, callVars, workerVars>>

SpecCall == InitCall /\ [][NextCall]_vars

\* two workers, started together, with or without a mutex around each call
InitWorkers ==
    /\ InitRL /\ InitLedger /\ IdleSteps /\ IdleRun /\ IdleCalls
    /\ workers \in
          [Workers ->
              { [pc |-> "start", kind |-> k, tokens |-> t, output_tokens |-> 1,
                 which |-> "request", current_time |-> 0, wake |-> 0,
                 stmt |-> 1, reg |-> 0] :
                   k \in {"generation", "verification"}, t \in PromptTokens }]
    /\ use_mutex \in BOOLEAN
    /\ lock = 0

NextWorkers ==
    \/ \E w \in Workers : EnterWait(w) /\ UNCHANGED <<runVars, callVars, stepVars>>
    \/ \E w \in Workers : Check(w) /\ UNCHANGED <<runVars, callVars, stepVars>>
    \/ \E w \in Workers : Wake(w) /\ UNCHANGED <<runVars, callVars, stepVars>>
    \/ \E w \in Workers : AppendEntry(w) /\ UNCHANGED <<runVars, callVars, stepVars>>
    \/ \E w \in Workers : EnterLedger(w) /\ UNCHANGED <<runVars, callVars, stepVars>>
    \/ \E w \in Workers : Load(w) /\ UNCHANGED <<runVars, callVars, stepVars>>
    \/ \E w \in Workers : Store(w) /\ UNCHANGED <<runVars, callVars, stepVars>>

SpecWorkers == InitWorkers /\ [][NextWorkers]_vars

\* the handling of one model response
InitExtract ==
    /\ InitRL /\ InitLedger /\ IdleSteps /\ IdleWorkers /\ IdleRun
    /\ llm_response \in Responses
    /\ extract_out = <<>>
    /\ input_qa_pairs = <<>>
    /\ verified_dataset = <<>>
    /\ verifyLog = <<>>
    /\ verify_pc = "idle"

NextExtract ==
    GenerateFromResponse /\ UNCHANGED <<rlVars, ledgerVars, runVars, stepVars, workerVars>>

SpecExtract == InitExtract /\ [][NextExtract]_vars

\* one verify_dataset call
InitVerify ==
    /\ InitRL /\ InitLedger /\ IdleSteps /\ IdleWorkers /\ IdleRun
    /\ llm_response = <<>>
    /\ extract_out = <<>>
    /\ input_qa_pairs \in VerifyInputs
    /\ verified_dataset = <<>>
    /\ verifyLog = <<>>
    /\ verify_pc = "loop"

NextVerify ==
    \/ \E failed \in BOOLEAN, response \in VerifyResponses \cup {<<>>} :
          /\ failed <=> response = <<>>
          /\ VerifyNext(failed, response)
          /\ UNCHANGED <<rlVars, ledgerVars, runVars, stepVars, workerVars>>
    \/ VerifyReturn /\ UNCHANGED <<rlVars, ledgerVars, runVars, stepVars, workerVars>>

SpecVerify == InitVerify /\ [][NextVerify]_vars

-----------------------------------------------------------------------------
(* Properties of the rate limiter.                                         *)

\* the amounts of the entries of hist that lie in the 60 second window
\* ending at time T: those recorded at a time t with T - window < t <= T
RECURSIVE WindowSum(_, _)
WindowSum(hist, T) ==
    IF hist = <<>> THEN 0
    ELSE (IF hist[1].t <= T /\ T - hist[1].t < window THEN hist[1].c ELSE 0)
         + WindowSum(Tail(hist), T)

\* C1: the token amounts recorded within any trailing 60 second window never
\* sum to more than tokens_per_minute.  The sum of a window only grows at an
\* admission, so the windows that end at an admission are the ones to check.
\* A single cost above tokens_per_minute fits no window at all, so the claim
\* is stated for the call sequences whose costs are each within the limit;
\* a violation there is a violation of the claim for any sequence.
C1_TokenCeiling ==
    (\A i \in 1 .. Len(waitLog) : waitLog[i].tokens <= tokens_per_minute)
    => \A k \in 1 .. Len(tokHist) :
          WindowSum(tokHist, tokHist[k].t) <= tokens_per_minute

\* C2: the number of request admissions recorded within any trailing 60 second
\* window never exceeds requests_per_minute; each admission counts 1.
C2_RequestCeiling ==
    /\ \A k \in 1 .. Len(reqHist) : reqHist[k].c = 1
    /\ \A k \in 1 .. Len(reqHist) :
          WindowSum(reqHist, reqHist[k].t) <= requests_per_minute

\* a call found the request window full, slept, and was then admitted with
\* the window full again
C2_Witness ==
    /\ waitLog # <<>>
    /\ waitLog[Len(waitLog)].reqSlept > 0
    /\ waitLog[Len(waitLog)].reqRecorded = 1
    /\ WindowSum(reqHist, reqHist[Len(reqHist)].t) = requests_per_minute

\* C3: every RateLimiter.wait call returns normally, having recorded exactly
\* one entry in the request limiter and one in the token limiter.
C3_WaitReturns ==
    /\ \A i \in 1 .. Len(waitLog) :
          /\ ~waitLog[i].raised
          /\ waitLog[i].reqRecorded = 1
          /\ waitLog[i].tokRecorded = 1
    /\ Len(reqHist) = Len(waitLog)
    /\ Len(tokHist) = Len(waitLog)

-----------------------------------------------------------------------------
(* Properties of the usage ledger.                                         *)

\* one amount of a logged call: a token count passed, or a cost returned
Amount(call, what) ==
    CASE what = "input_tokens" -> call.input_tokens
      [] what = "output_tokens" -> call.output_tokens
      [] what = "tokens" -> call.input_tokens + call.output_tokens
      [] what = "returned_first" -> call.returned[1]
      [] what = "returned_second" -> call.returned[2]

\* the sum of an amount over the calls of the given kind in a log
RECURSIVE SumOver(_, _, _)
SumOver(log, kind, what) ==
    IF log = <<>> THEN 0
    ELSE (IF log[1].kind = kind THEN Amount(log[1], what) ELSE 0)
         + SumOver(Tail(log), kind, what)

\* what get_summary must report after the calls of `log`
ExpectedSummary(log) ==
    LET it == SumOver(log, "generation", "input_tokens")
        ot == SumOver(log, "generation", "output_tokens")
        ic == SumOver(log, "generation", "returned_first")
        oc == SumOver(log, "generation", "returned_second")
        vt == SumOver(log, "verification", "tokens")
        vc == SumOver(log, "verification", "returned_first")
    IN  [total_input_tokens |-> it, total_output_tokens |-> ot,
         total_tokens |-> it + ot,
         total_input_cost |-> ic, total_output_cost |-> oc,
         total_cost |-> ic + oc,
         total_verification_tokens |-> vt, total_verification_cost |-> vc,
         grand_total_cost |-> ic + oc + vc]

RECURSIVE Prefix(_, _)
Prefix(s, n) == IF n = 0 THEN <<>> ELSE Append(Prefix(s, n - 1), s[n])

\* C9: after any sequence of add_usage and add_verification_usage calls,
\* get_summary reports the sums of the token amounts passed and of the costs
\* returned by the calls, every call counted exactly once.
C9_LedgerAdditivity ==
    /\ Summary = ExpectedSummary(usageLog)
    /\ summary # <<>> =>
          summary[1].result = ExpectedSummary(Prefix(usageLog, summary[1].after))

\* a summary taken after generation and verification calls with tokens
C9_Witness ==
    /\ summary # <<>>
    /\ summary[1].after = Len(usageLog)
    /\ summary[1].result.total_input_tokens > 0
    /\ summary[1].result.total_output_tokens > 0
    /\ summary[1].result.total_verification_tokens
          > summary[1].result.total_input_tokens
    /\ \E i, j \in 1 .. Len(usageLog) :
          /\ i # j
          /\ usageLog[i].kind = "generation"
          /\ usageLog[j].kind = "generation"

-----------------------------------------------------------------------------
(* Properties of the mining run.                                           *)

\* the records the output file holds: none unless it holds a JSON array
DiskRecords == IF disk.state = "json" THEN disk.data ELSE <<>>

\* the records of the processed chunks, in the order of the chunks
RECURSIVE AllAdded(_)
AllAdded(log) ==
    IF log = <<>> THEN <<>> ELSE log[1].added \o AllAdded(Tail(log))

IsPrefix(a, b) ==
    /\ Len(a) <= Len(b)
    /\ \A i \in 1 .. Len(a) : a[i] = b[i]

\* the {instruction, input, output} object of an in-memory record
Normalized(r) ==
    [instruction |-> IF "instruction" \in DOMAIN r THEN r.instruction ELSE <<>>,
     input |-> IF "input" \in DOMAIN r THEN r.input ELSE <<>>,
     output |-> IF "output" \in DOMAIN r THEN r.output ELSE <<>>]

\* the objects of a sequence of batches, in order
RECURSIVE NormalizedAll(_)
NormalizedAll(batches) ==
    IF batches = <<>> THEN <<>>
    ELSE [i \in 1 .. Len(batches[1]) |-> Normalized(batches[1][i])]
         \o NormalizedAll(Tail(batches))

\* C4: when an interrupt arrives after the first chunk has completed, the
\* run ends without raising, has printed its summary, and the output file
\* holds exactly the records of that chunk.
C4_InterruptSafety ==
    (pc \in {"exit", "raised"} /\ caught = "KeyboardInterrupt"
        /\ Len(produced) = 1)
    => /\ pc = "exit"
       /\ printed # <<>>
       /\ DiskRecords = NormalizedAll(<<produced[1].added>>)

\* C5: once chunk k is generated (and verified) and before the generation
\* for chunk k+1 begins, the output file holds the records of chunks 1..k.
C5_PersistAfterEveryChunk ==
    (pc = "chunks" /\ chunkIdx \in 2 .. NumChunks)
    => DiskRecords = FormatAlpacaDataset(AllAdded(produced))

\* C6: at every point after a save has completed, also in the middle of a
\* later save, the output file is a JSON array that begins with the records
\* the completed save left in it.
C6_DurableFile ==
    persisted # <<>> => disk.state = "json" /\ IsPrefix(persisted, disk.data)

\* C7: no failure inside the generation or the verification of a chunk ends
\* the run: the chunks and files after it are still processed.
C7_ChunkFailureIsolated == abortedIn \notin {"generation", "verification"}

\* C8: a model invocation that raises in generate_questions_answers is never
\* propagated; the chunk adds no record, and when process_file has returned,
\* the returned records and the output file hold the records of the other
\* chunks, in order.
C8_TransportFailureSkipsChunk ==
    /\ abortedIn # "generation"
    /\ \A i \in 1 .. Len(produced) :
          produced[i].failed => produced[i].added = <<>>
    /\ pc = "files" =>
          /\ mined_data = AllAdded(produced)
          /\ DiskRecords = NormalizedAll(<<mined_data>>)

\* the first file had three chunks, the model call failed for the second,
\* and the records of the first and the third are returned and on disk
C8_Witness ==
    /\ pc = "files"
    /\ docIdx = 2
    /\ Len(produced) = 3
    /\ produced[1].added # <<>>
    /\ produced[2].failed
    /\ produced[3].added # <<>>
    /\ mined_data = produced[1].added \o produced[3].added
    /\ DiskRecords = NormalizedAll(<<produced[1].added, produced[3].added>>)

\* C10: save_mined_data appends: after any saves to one path the file holds
\* what it held before the first (nothing when it was absent or empty),
\* followed by the objects of each batch in the order of the calls.
C10_SaveAppendsDelta ==
    saves # <<>> =>
        disk = JsonFile((IF initial_file.state = "json"
                         THEN initial_file.data ELSE <<>>)
                        \o NormalizedAll(saves))

\* [A] then [B] were saved to a fresh path, and the file holds [A, B]
C10_Witness ==
    /\ initial_file = Absent
    /\ Len(saves) = 2
    /\ Len(saves[1]) = 1
    /\ Len(saves[2]) = 1
    /\ saves[1] # saves[2]
    /\ disk.data = <<Normalized(saves[1][1]), Normalized(saves[2][1])>>

\* [B] was saved to a file that held [A], and the file holds [A, B]
C10_WitnessExisting ==
    /\ initial_file.state = "json"
    /\ Len(saves) = 1
    /\ Len(saves[1]) = 1
    /\ disk.data = initial_file.data \o <<Normalized(saves[1][1])>>
    /\ Len(disk.data) = 2

-----------------------------------------------------------------------------
(* Properties of the handling of a model response.                         *)

\* the elements of the well-formed arrays of a text, found from token i on:
\* an array is taken where it begins, and the search goes on after its end
RECURSIVE ArrayElements(_, _)
ArrayElements(text, i) ==
    IF i > Len(text) THEN <<>>
    ELSE IF text[i] = "[" /\ ParseValue(text, i, 0).status = "ok"
    THEN ParseValue(text, i, 0).value.items
         \o ArrayElements(text, ParseValue(text, i, 0).next)
    ELSE ArrayElements(text, i + 1)

\* C12: extract_json_from_response returns the elements of every well-formed
\* JSON array of the response, whatever prose or stray brackets surround the
\* arrays and however many arrays there are.
C12_ExtractsEveryArray ==
    (extract_out # <<>> /\ ~extract_out[1].raised)
    => extract_out[1].results = ArrayElements(llm_response, 1)

\* C13: a response that is one JSON object gives that object as the one
\* record, and a response that is one JSON array gives its elements.
C13_SingleObjectContributesItself ==
    extract_out # <<>> =>
       /\ (Len(llm_response) = 1 /\ llm_response[1] \in ObjectTokens)
             => extract_out[1].results = <<Object(llm_response[1])>>
       /\ (llm_response # <<>> /\ llm_response[1] = "["
              /\ JsonLoads(llm_response).status = "ok")
             => extract_out[1].results = JsonLoads(llm_response).value.items

\* C14: extract_json_from_response raises for no response; when no span of
\* the response parses, generate_questions_answers returns no record.
C14_ExtractNeverRaises ==
    extract_out # <<>> =>
       /\ ~extract_out[1].raised
       /\ extract_out[1].results = <<>> => extract_out[1].returned = <<>>

\* C15: every record generate_questions_answers returns has exactly the keys
\* instruction, input and output.
C15_GeneratorReturnsQAPairs ==
    extract_out # <<>> =>
       \A i \in 1 .. Len(extract_out[1].returned) :
          DOMAIN extract_out[1].returned[i] = {"instruction", "input", "output"}

-----------------------------------------------------------------------------
(* Properties of the verification.                                         *)

\* the result named for a text that begins with a verdict, and for any other
\* text; the explanation is the rest of the text, trimmed
ByPrefix(text) ==
    IF StartsWith(Upper(text), CORRECT)
    THEN [status |-> "CORRECT", explanation |-> Strip(Slice(text, 7))]
    ELSE IF StartsWith(Upper(text), INCORRECT)
    THEN [status |-> "INCORRECT", explanation |-> Strip(Slice(text, 9))]
    ELSE [status |-> "UNKNOWN",
          explanation |-> <<"Unexpected verification response">>]

\* C16: the result for a response r of the model is the one its prefix
\* names: CORRECT or INCORRECT with the rest of r after the 7 or 9 characters
\* of the verdict, UNKNOWN with the fixed explanation for any other r.  A
\* response with whitespace before the verdict may be read as beginning with
\* the verdict or as any other response; both results are accepted here.
C16_ClassifiedByPrefix ==
    \A i \in 1 .. Len(verifyLog) :
       ~verifyLog[i].failed =>
          verifyLog[i].result \in { ByPrefix(verifyLog[i].response),
                                    ByPrefix(Strip(verifyLog[i].response)) }

\* C17: a model invocation that raises inside verify_qa_pair is not
\* propagated; the result is ERROR with the failure message, and
\* verify_dataset goes on to the next record and returns a result for each.
C17_InvocationFailureGivesError ==
    /\ verify_pc # "invocation raised"
    /\ \A i \in 1 .. Len(verifyLog) :
          verifyLog[i].failed =>
             /\ verifyLog[i].result =
                   [status |-> "ERROR", explanation |-> ErrorMessage]
             /\ verified_dataset[i].verification = verifyLog[i].result
    /\ verify_pc = "returned" => Len(verifyLog) = Len(input_qa_pairs)

\* the invocation for the first of two records raised, the second record was
\* verified after it, and verify_dataset returned both
C17_Witness ==
    /\ verify_pc = "returned"
    /\ Len(input_qa_pairs) = 2
    /\ Len(verifyLog) = 2
    /\ verifyLog[1].failed
    /\ verified_dataset[1].verification.status = "ERROR"
    /\ ~verifyLog[2].failed
    /\ verified_dataset[2].verification.status = "CORRECT"

\* C18: verify_dataset returns one record per record of its argument, in
\* the same order, with the keys and values of the argument's record and one
\* verification of status CORRECT, INCORRECT, UNKNOWN or ERROR; verify_qa_pair
\* is called once per record, in order.
C18_OneVerificationPerPair ==
    /\ \A i \in 1 .. Len(verifyLog) : verifyLog[i].index = i
    /\ Len(verifyLog) = Len(verified_dataset)
    /\ Len(verified_dataset) <= Len(input_qa_pairs)
    /\ verify_pc = "returned" => Len(verified_dataset) = Len(input_qa_pairs)
    /\ \A i \in 1 .. Len(verified_dataset) :
          /\ DOMAIN verified_dataset[i]
                = DOMAIN input_qa_pairs[i] \cup {"verification"}
          /\ \A k \in DOMAIN input_qa_pairs[i] :
                verified_dataset[i][k] = input_qa_pairs[i][k]
          /\ DOMAIN verified_dataset[i].verification
                = {"status", "explanation"}
          /\ verified_dataset[i].verification.status
                \in {"CORRECT", "INCORRECT", "UNKNOWN", "ERROR"}

\* verify_dataset returned for two different records, one with an input, with
\* two different verdicts
C18_Witness ==
    /\ verify_pc = "returned"
    /\ Len(verified_dataset) = 2
    /\ input_qa_pairs[1] # input_qa_pairs[2]
    /\ "input" \in DOMAIN verified_dataset[2]
    /\ verified_dataset[1].verification.status = "INCORRECT"
    /\ verified_dataset[2].verification.status = "UNKNOWN"

-----------------------------------------------------------------------------
(* Properties of the run's result and of the written objects.              *)

\* start_mining has returned to cli.main
Returned ==
    pc \in {"summary", "exit"} /\ caught = "none" /\ cost_analyzer_bound

\* C11: when start_mining has returned, the file at the returned path holds
\* the {instruction, input, output} objects of the returned records, one per
\* record and in the same order.
C11_FileEqualsResult ==
    Returned =>
       /\ output_file_path = unique_output_file
       /\ Len(DiskRecords) = CountRecords(produced)
       /\ Len(DiskRecords) = Len(main_mined_data)
       /\ DiskRecords = FormatAlpacaDataset(main_mined_data)

\* both files gave a record, each was saved by its own save_mined_data call,
\* and start_mining returned the two
C11_Witness ==
    /\ Returned
    /\ Len(saves) = 2
    /\ Len(saves[1]) = 1
    /\ Len(saves[2]) = 1
    /\ main_mined_data = saves[1] \o saves[2]
    /\ Len(DiskRecords) = 2

Keys == {"instruction", "input", "output"}

\* C19: every object in the file save_mined_data wrote has exactly the keys
\* instruction, input and output; the objects of the batch carry the values
\* of the record's keys, and the empty string for a key the record lacks.
C19_WrittenKeys ==
    /\ \A i \in 1 .. Len(DiskRecords) : DOMAIN DiskRecords[i] = Keys
    /\ saves # <<>> =>
          LET batch == saves[Len(saves)]
              n == Len(DiskRecords) - Len(batch)
          IN  \A j \in 1 .. Len(batch) : \A k \in Keys :
                 DiskRecords[n + j][k] = Get(batch[j], k, EmptyString)

\* a verified record and a record without output were saved: the file holds
\* neither the verification nor a missing output
C19_Witness ==
    /\ saves # <<>>
    /\ Len(saves[Len(saves)]) = 2
    /\ "verification" \in DOMAIN saves[Len(saves)][1]
    /\ "output" \notin DOMAIN saves[Len(saves)][2]
    /\ DiskRecords[Len(DiskRecords)].output = EmptyString
    /\ DOMAIN DiskRecords[Len(DiskRecords) - 1] = Keys

\* the origin <<file, chunk, position in the answer>> of a record, read from
\* its instruction, and the order of two origins
ComesBefore(a, b) ==
    \/ a.instruction[2] < b.instruction[2]
    \/ /\ a.instruction[2] = b.instruction[2]
       /\ a.instruction[3] < b.instruction[3]
    \/ /\ a.instruction[2] = b.instruction[2]
       /\ a.instruction[3] = b.instruction[3]
       /\ a.instruction[4] < b.instruction[4]

InOrder(records) ==
    \A p, q \in 1 .. Len(records) :
       p < q => ComesBefore(records[p], records[q])

\* C20: in the output file, in the list start_mining accumulates and in the
\* list it returns, the records stand in the order of their files, within a
\* file in the order of their chunks, within a chunk in the order of the
\* model's answer.
C20_ChunkOrderPreserved ==
    /\ InOrder(DiskRecords)
    /\ InOrder(mined_data)
    /\ InOrder(main_mined_data)

\* start_mining returned a record of the first file and a record of the
\* second, and the file holds them in that order
C20_Witness ==
    /\ Returned
    /\ Len(main_mined_data) = 2
    /\ main_mined_data[1].instruction[2] = 1
    /\ main_mined_data[2].instruction[2] = 2
    /\ DiskRecords = FormatAlpacaDataset(main_mined_data)

-----------------------------------------------------------------------------
(* Properties of successive saves and of the summary.                      *)

C25_SummaryIsPureRead ==
    [][summary' # summary =>
          /\ UNCHANGED <<total_input_tokens, total_output_tokens,
                         total_input_cost, total_output_cost,
                         total_verification_tokens, total_verification_cost,
                         usageLog>>
          /\ LET r == summary'[1].result
             IN  /\ r.total_input_tokens = total_input_tokens
                 /\ r.total_output_tokens = total_output_tokens
                 /\ r.total_input_cost = total_input_cost
                 /\ r.total_output_cost = total_output_cost
                 /\ r.total_verification_tokens = total_verification_tokens
                 /\ r.total_verification_cost = total_verification_cost
                 /\ r.total_tokens = r.total_input_tokens + r.total_output_tokens
                 /\ r.total_cost = r.total_input_cost + r.total_output_cost
                 /\ r.grand_total_cost = r.total_input_cost + r.total_output_cost
                                         + r.total_verification_cost]_vars

\* a summary was taken of a ledger in which generation and verification
\* both cost something, so that the three totals differ
C25_Witness ==
    /\ summary # <<>>
    /\ summary[1].result.total_verification_cost > 0
    /\ summary[1].result.total_input_cost > 0
    /\ summary[1].result.total_output_cost > 0
    /\ summary[1].result.grand_total_cost > summary[1].result.total_cost
    /\ summary[1].result.total_cost > summary[1].result.total_input_cost

-----------------------------------------------------------------------------
(* Properties of the failures of a run.                                    *)

\* C22: no failure of the text extraction of a file ends the run: the file
\* adds no record, and start_mining goes on with the next file.
C22_ExtractionFailureIsolated == abortedIn # "extraction"

\* C23: a failure of the write inside save_mined_data reaches cli.main as an
\* exception; after it no file and no chunk is processed, and nothing more
\* is saved.
C23_SaveFailureIsFatal ==
    abortedIn = "io" =>
       /\ pc \in {"summary", "exit"}
       /\ caught = "Exception"
       /\ main_mined_data = <<>>
       /\ \A i \in 1 .. Len(produced) : produced[i].doc <= docIdx
       /\ Len(saves) < docIdx

\* the write for the first file failed: the second file was never begun and
\* cli.main has printed its summary
C23_Witness ==
    /\ abortedIn = "io"
    /\ pc = "exit"
    /\ docIdx = 1
    /\ Len(produced) = NumChunks
    /\ saves = <<>>
    /\ printed # <<>>

-----------------------------------------------------------------------------
(* Properties of RateLimiter.wait.                                         *)

\* the call a step has added to the log
NewCall == waitLog'[Len(waitLog')]

\* the entries of a history that are younger than one window at time T
InWindow(hist, T) == SelectSeq(hist, LAMBDA e : T - e.t < window)

\* C26: one RateLimiter.wait call asks time.sleep for at most `window`
\* seconds in all, the sleep of request_limit and that of token_limit
\* together; it returns at most `window` seconds after it was entered, plus
\* what time.sleep overslept.
C26_BlocksAtMostWindow ==
    \A i \in 1 .. Len(waitLog) :
       LET c == waitLog[i]
       IN  /\ c.reqAsked + c.tokAsked <= window
           /\ c.end - c.start = c.reqSlept + c.tokSlept
           /\ c.end - c.start
                 <= window + (c.reqSlept - c.reqAsked) + (c.tokSlept - c.tokAsked)

\* a call slept in both sub-limiters, one whole window in all
C26_Witness ==
    \E i \in 1 .. Len(waitLog) :
       /\ waitLog[i].reqAsked > 0
       /\ waitLog[i].tokAsked > 0
       /\ waitLog[i].reqAsked + waitLog[i].tokAsked = window
       /\ waitLog[i].end - waitLog[i].start = window

\* C27: every RateLimiter.wait call goes through request_limit and then,
\* unless that raised, through token_limit.  A call that finds the request
\* window full is delayed and records one request entry, whatever its token
\* cost, zero included; a call whose tokens do not fit the token window is
\* delayed by token_limit (or raises on an empty window), whether or not the
\* request window had room.
C27_BothLimitersConsulted ==
    [][waitLog' # waitLog =>
          LET c == NewCall
              requests == InWindow(reqHist, c.start)
              tokens == InWindow(tokHist, c.start + c.reqSlept)
          IN  /\ Len(requests) >= requests_per_minute =>
                    /\ c.reqAsked > 0
                    /\ Len(reqHist') = Len(reqHist) + 1
              /\ c.reqRecorded = 1
              /\ reqHist'[Len(reqHist')].c = 1
              /\ TotalCount(tokens) + c.tokens > tokens_per_minute =>
                    c.tokAsked > 0 \/ c.raised
              /\ ~c.raised =>
                    /\ c.tokRecorded = 1
                    /\ tokHist'[Len(tokHist')].c = c.tokens
                    /\ Len(tokHist') = Len(tokHist) + 1]_vars

\* a call of token cost 0 was delayed by the full request window and
\* recorded in both deques, and another call was delayed by token_limit alone
C27_Witness ==
    /\ \E i \in 1 .. Len(waitLog) :
          /\ waitLog[i].tokens = 0
          /\ waitLog[i].reqAsked > 0
          /\ waitLog[i].tokAsked = 0
          /\ waitLog[i].reqRecorded = 1
          /\ waitLog[i].tokRecorded = 1
    /\ \E i \in 1 .. Len(waitLog) :
          /\ waitLog[i].reqAsked = 0
          /\ waitLog[i].tokAsked > 0

\* C28: each check counts exactly the entries recorded less than `window`
\* seconds before it: the call sleeps if and only if those entries and its
\* own count exceed the limit, and after the call each deque holds exactly
\* the entries younger than one window at the time the new entry was
\* appended, the purge after the sleep included.
C28_SlidingWindowExactBoundary ==
    [][waitLog' # waitLog =>
          LET c == NewCall
              t1 == c.start + c.reqSlept
              requests == InWindow(reqHist, c.start)
              tokens == InWindow(tokHist, t1)
          IN  /\ c.reqAsked > 0 <=> Len(requests) + 1 > requests_per_minute
              /\ request_limit' = InWindow(reqHist', t1)
              /\ ~c.raised =>
                    /\ c.tokAsked > 0 <=>
                          TotalCount(tokens) + c.tokens > tokens_per_minute
                    /\ token_limit' = InWindow(tokHist', c.end)
              /\ c.raised <=>
                    /\ tokens = <<>>
                    /\ c.tokens > tokens_per_minute]_vars

\* after requests_per_minute calls at time 0, a call at exactly `window` was
\* not delayed: the entries of time 0 were purged before the comparison
C28_Witness ==
    /\ Len(waitLog) > requests_per_minute
    /\ \A i \in 1 .. requests_per_minute : waitLog[i].start = 0
    /\ LET c == waitLog[requests_per_minute + 1]
       IN  /\ c.start = window
           /\ c.reqSlept = 0
           /\ c.tokSlept = 0
    /\ Len(request_limit) = 1

-----------------------------------------------------------------------------
(* Properties of the output path.                                          *)

\* the runs that would write to a path: the configured outputs and start
\* times whose unique file name it is
RunsWriting(path) ==
    { run \in Outputs \X Timestamps :
         GenerateUniqueFilename(run[1], run[2]) = path }

\* C30: every path a run opens for writing is the path start_mining derived
\* at its start, which does not change while the run goes on and is the path
\* returned to cli.main; it is the unique file name of one configured output
\* at one start time only, so that a run started at another time writes
\* elsewhere, and it differs from that configured output.
C30_OneUniquePathPerRun ==
    [][/\ written' \subseteq {unique_output_file'}
       /\ written \subseteq written'
       /\ pc # "main" => unique_output_file' = unique_output_file
       /\ output_file_path' \in {EmptyString, unique_output_file'}
       /\ \A path \in written' :
             /\ Cardinality(RunsWriting(path)) = 1
             /\ \A run \in RunsWriting(path) : run[1] # path]_vars

\* both files were saved to the one path, derived from an output name that
\* ends like a timestamp, and the path was returned to cli.main
C30_Witness ==
    /\ Len(saves) = NumDocs
    /\ written = {unique_output_file}
    /\ output_file_path = unique_output_file
    /\ unique_output_file = <<"m", "_", "0", "1", "_", "1", "0", ".", "j">>
    /\ pc = "exit"

-----------------------------------------------------------------------------
(* Properties of the steps of a model call.                                *)

\* the steps of a call in the order of the code
CallOrder(configured) ==
    IF configured
    THEN <<"count_prompt", "admit", "invoke", "count_response", "record">>
    ELSE <<"count_prompt", "invoke", "count_response", "record">>

\* the steps the call has taken
Steps == [i \in 1 .. Len(events) |-> events[i].step]

\* C29: the steps of a call of the generator or of the verifier are, in this
\* order: count of the prompt's tokens, the admission by the rate limiter if
\* there is one, the invocation of the model, count of the response's
\* tokens, the record in the ledger.  With a limiter the model is invoked
\* only after RateLimiter.wait has returned for the counted tokens; without
\* one no wait is made and no time passes before the invocation.  The ledger
\* records the two counts under the kind of the call.
C29_CallStepsInOrder ==
    /\ IsPrefix(Steps, CallOrder(has_rate_limiter))
    /\ \A i \in 1 .. Len(events) :
          (has_rate_limiter /\ events[i].step = "invoke") =>
             /\ i > 1
             /\ events[i - 1].step = "admit"
             /\ LET c == waitLog[events[i - 1].call]
                IN  /\ ~c.raised
                    /\ c.tokens = call_tokens.input
                    /\ c.start = events[1].time
                    /\ c.end = events[i - 1].time
                    /\ c.end <= events[i].time
                    /\ c.reqRecorded = 1
                    /\ c.tokRecorded = 1
    /\ ~has_rate_limiter =>
          /\ waitLog = <<>>
          /\ \A i \in 1 .. Len(events) : events[i].time = events[1].time
    /\ (events # <<>> /\ events[Len(events)].step = "record") =>
          /\ usageLog # <<>>
          /\ LET u == usageLog[Len(usageLog)]
             IN  /\ u.kind = call_kind
                 /\ u.input_tokens = call_tokens.input
                 /\ u.output_tokens = call_tokens.output

\* a call of the verifier went through its five steps, and its admission
\* made it wait
C29_Witness ==
    /\ has_rate_limiter
    /\ call_kind = "verification"
    /\ Steps = CallOrder(TRUE)
    /\ events[3].time > events[1].time
    /\ call_tokens.output > 0
    /\ total_verification_tokens > 0

-----------------------------------------------------------------------------
(* Properties of two workers on shared instances.                          *)

\* the tokens recorded in the token window at the present time
TokensInWindow == TotalCount(InWindow(tokHist, now))

\* C24: when each call of RateLimiter.wait, add_usage and
\* add_verification_usage is made under one mutex, get_summary reports the
\* sums of the amounts of the completed calls whenever the mutex is free, as
\* for sequential calls, and at most one worker is inside a call.  (Without
\* the mutex a ledger update is lost and the token ceiling exceeded: the
\* state C24_Witness.)
C24_MutexKeepsLedgerAdditive ==
    use_mutex =>
       /\ lock = 0 => Summary = ExpectedSummary(usageLog)
       /\ Cardinality({ w \in Workers :
                          workers[w].pc \notin {"start", "waited", "done"} }) <= 1

\* without a mutex: both workers have returned from both calls, neither
\* asked for more tokens than the limit, the window holds more tokens than
\* the limit, and the ledger reports less than the sum of the two calls
C24_Witness ==
    /\ ~use_mutex
    /\ \A w \in Workers :
          /\ workers[w].pc = "done"
          /\ workers[w].tokens <= tokens_per_minute
    /\ Len(usageLog) = 2
    /\ TokensInWindow > tokens_per_minute
    /\ Summary # ExpectedSummary(usageLog)
    /\ Summary.total_input_tokens < ExpectedSummary(usageLog).total_input_tokens

\* with the mutex: both workers have returned from both calls, the second
\* waited for the window to pass, and the ledger holds both calls
C24_SerializedRun ==
    /\ use_mutex
    /\ \A w \in Workers : workers[w].pc = "done"
    /\ Len(usageLog) = 2
    /\ now >= window
    /\ Summary = ExpectedSummary(usageLog)
    /\ Summary.total_input_tokens = 2 * (tokens_per_minute - 1)

-----------------------------------------------------------------------------
(* Properties of the moments at which calls are dispatched.                *)

\* the calls of the log that returned, and so dispatched their model call,
\* within the 60 second window ending at time T
DispatchedIn(T) ==
    { j \in 1 .. Len(waitLog) :
         /\ ~waitLog[j].raised
         /\ waitLog[j].end <= T
         /\ T - waitLog[j].end < window }

\* C31: the number of RateLimiter.wait calls that return within any trailing
\* 60 second window never exceeds requests_per_minute.  The number only
\* grows when a call returns, so the windows that end at a return are the
\* ones to look at; stated for calls whose costs are each within
\* tokens_per_minute.
C31_DispatchCeiling ==
    (\A i \in 1 .. Len(waitLog) : waitLog[i].tokens <= tokens_per_minute)
    => \A i \in 1 .. Len(waitLog) :
          ~waitLog[i].raised =>
             Cardinality(DispatchedIn(waitLog[i].end)) <= requests_per_minute

\* C32: a call whose model invocation raises changes no counter of the
\* ledger, and the admission it made before the invocation stays as it was
\* recorded, the newest entry of the request window and of the token window;
\* the counters change only in the record step of a call whose invocation
\* returned.
C32_FailedCallLeavesLedger ==
    [][/\ (call_pc = "invoke" /\ call_pc' = "idle") =>
             /\ Counters' = Counters
             /\ usageLog' = usageLog
             /\ has_rate_limiter =>
                   LET c == waitLog[events[2].call]
                   IN  /\ UNCHANGED <<request_limit, token_limit>>
                       /\ request_limit[Len(request_limit)] =
                             [t |-> c.start + c.reqSlept, c |-> 1]
                       /\ token_limit[Len(token_limit)] =
                             [t |-> c.end, c |-> call_tokens.input]
       /\ (Counters' # Counters \/ usageLog' # usageLog) =>
             /\ call_pc = "record"
             /\ Steps' = CallOrder(has_rate_limiter)]_vars

\* the first call was recorded in the ledger; the second was admitted, its
\* invocation raised, and the ledger holds the first call alone
C32_Witness ==
    /\ has_rate_limiter
    /\ started = 2
    /\ call_pc = "idle"
    /\ Steps = <<"count_prompt", "admit", "invoke">>
    /\ Len(usageLog) = 1
    /\ Len(reqHist) = 2
    /\ Len(tokHist) = 2
    /\ tokHist[2].c = call_tokens.input
    /\ Summary = ExpectedSummary(usageLog)

-----------------------------------------------------------------------------
(* Properties of a run with verification.                                  *)

\* the number of records the generator returned for the processed chunks
RECURSIVE CountGenerated(_)
CountGenerated(log) ==
    IF log = <<>> THEN 0
    ELSE Len(log[1].generated) + CountGenerated(Tail(log))

Statuses == {"CORRECT", "INCORRECT", "UNKNOWN", "ERROR"}

\* C33: with args.verify, each record the generator returned for a chunk is
\* added to the list of the file, in order and with the key verification
\* added, whatever the status; when a file has been saved, and when
\* start_mining has returned, the list and the output file hold as many
\* records as the generator returned.
C33_VerificationNeverFilters ==
    verify =>
       /\ \A i \in 1 .. Len(produced) :
             LET p == produced[i]
             IN  /\ Len(p.added) = Len(p.generated)
                 /\ \A k \in 1 .. Len(p.added) :
                       /\ p.added[k].verification.status \in Statuses
                       /\ \A key \in DOMAIN p.generated[k] :
                             p.added[k][key] = p.generated[k][key]
       /\ (pc = "files" \/ Returned) =>
             /\ Len(DiskRecords) = CountGenerated(produced)
             /\ Len(IF Returned THEN main_mined_data ELSE mined_data)
                   = CountGenerated(produced)

\* a verified run returned two records, one found INCORRECT and one for
\* which the verifier's model call failed, and the file holds both
C33_Witness ==
    /\ verify
    /\ Returned
    /\ Len(main_mined_data) = 2
    /\ main_mined_data[1].verification.status = "INCORRECT"
    /\ main_mined_data[2].verification.status = "ERROR"
    /\ Len(DiskRecords) = 2
    /\ CountGenerated(produced) = 2


\* C34: the record count and the output path that print_summary reports are
\* the number of records in the persisted output file and the path of that
\* file, also when the run ended through an interrupt or an exception after
\* a document had been persisted.
C34_SummaryMatchesFile ==
    (printed # <<>> /\ persisted # <<>>)
    => /\ printed[1].count = Len(DiskRecords)
       /\ printed[1].path = unique_output_file


\* C35: cli.main prints the run summary and returns without raising on every
\* exit path: normal completion, KeyboardInterrupt, any other exception
\* raised during mining, and initialize_llm returning no model.
C35_SummaryOnEveryExit ==
    /\ pc # "raised"
    /\ pc = "exit" => printed # <<>>


\* C36: the result of verify_qa_pair does not depend on the whitespace around
\* the model response: the status and the explanation returned for a response
\* r are those returned for r without its leading and trailing whitespace.
C36_WhitespaceInvariant ==
    \A i \in 1 .. Len(verifyLog) :
       ~verifyLog[i].failed =>
          verifyLog[i].result = Classify(Strip(verifyLog[i].response))


\* the documents whose text was handed to the model
TextDocs == { produced[i].doc : i \in 1 .. Len(produced) }

============================================================================
